---- MODULE Spec2Model ----
(***************************************************************************)
(* A model of the Kanban board server (server/src/index.ts): the tables of *)
(* db/schema.sql as functions keyed by their primary keys, one action per  *)
(* HTTP handler, and the move-card transaction once more step by step for  *)
(* the behaviours in which two requests overlap.                          *)
(***************************************************************************)
EXTENDS Integers, Sequences, FiniteSets, TLC

(***************************************************************************)
(* Bounds of the model.                                                    *)
(***************************************************************************)
MaxBoards == 1
MaxCards == 4
MaxComments == 2
MaxColumns == 4
MaxActivities == 6
MaxIndex == 2
MaxRequests == 2
MaxConns == 2
ConcCards == 2

(***************************************************************************)
(* Program constants.                                                      *)
(***************************************************************************)
GAP == 1000

PageCap == 100

Users == {1, 2, 3, 4}

\* the users whose requests the specifications of the team board follow
Actors == {1, 2, 3}

(***************************************************************************)
(* Strings that the code converts (trim, LOWER, date parsing) are          *)
(* sequences of one-character strings; strings it only stores and compares *)
(* are TLA+ strings.  A nullable column holds Null or Some(value).         *)
(***************************************************************************)
Null == <<>>

Some(x) == <<x>>

Min(a, b) == IF a < b THEN a ELSE b

LowerChar(c) ==
  CASE c = "A" -> "a"
    [] c = "B" -> "b"
    [] c = "C" -> "c"
    [] c = "L" -> "l"
    [] c = "O" -> "o"
    [] c = "Y" -> "y"
    [] c = "X" -> "x"
    [] OTHER -> c

Lower(s) == [i \in 1..Len(s) |-> LowerChar(s[i])]

RECURSIVE TrimStart(_)
TrimStart(s) ==
  IF s # <<>> /\ Head(s) = " " THEN TrimStart(Tail(s)) ELSE s

RECURSIVE TrimEnd(_)
TrimEnd(s) ==
  IF s # <<>> /\ s[Len(s)] = " " THEN TrimEnd(SubSeq(s, 1, Len(s) - 1)) ELSE s

Trim(s) == TrimEnd(TrimStart(s))

(***************************************************************************)
(* The users table.  Registration stores the trimmed name and the          *)
(* lower-cased email; it is outside the modelled core, so the rows are     *)
(* fixed.  The name is any non-empty text (registerSchema): user 4 chose   *)
(* the text of user 2's email.                                             *)
(***************************************************************************)
UserName(u) ==
  CASE u = 1 -> <<"A", "l">>
    [] u = 2 -> <<"B", "o">>
    [] u = 3 -> <<"C", "y">>
    [] u = 4 -> <<"b", "o", "@", "x">>

UserEmail(u) ==
  CASE u = 1 -> <<"a", "l", "@", "x">>
    [] u = 2 -> <<"b", "o", "@", "x">>
    [] u = 3 -> <<"c", "y", "@", "x">>
    [] u = 4 -> <<"d", "@", "x">>

VARIABLES
  boards,         \* id -> [name, created_by]
  board_members,  \* <<board_id, user_id>> -> role
  columns,        \* id -> [board_id, title, position]
  cards,          \* id -> [board_id, column_id, title, description, assignee, due_date, position]
  card_comments,  \* id -> [board_id, card_id, user_id, body]
  activities,     \* the activities rows in insertion (id) order
  serial,         \* the next value of each SERIAL sequence
  last,           \* the request handled last, with its response
  emitted,        \* the socket events the request handled last emitted
  tx,             \* the move-card requests in flight, by request
  sockets,        \* connection -> [userId, open, rooms, joinedBoards, pending]
  boardPresence   \* boardId -> (userId -> number of joined connections)

db == <<boards, board_members, columns, cards, card_comments, activities, serial>>

\* the state of the socket server
live == <<sockets, boardPresence>>

vars == <<boards, board_members, columns, cards, card_comments, activities, serial,
          last, emitted, tx, sockets, boardPresence>>

NoRole == "none"

(***************************************************************************)
(* Helpers of index.ts.                                                    *)
(***************************************************************************)
\* a plausible slip: the query without its user_id condition, any row of the board
getBoardRoleOfBoard(userId, boardId) ==
  IF \E key \in DOMAIN board_members : key[1] = boardId
    THEN board_members[CHOOSE key \in DOMAIN board_members : key[1] = boardId]
    ELSE "none"

\* a plausible slip: the role is taken from what the user's token was issued with,
\* owner for the creator of the board and member for a user who was ever invited
getBoardRoleFromToken(userId, boardId) ==
  IF boardId \in DOMAIN boards /\ boards[boardId].created_by = userId THEN "owner"
  ELSE IF \E i \in 1..Len(activities) :
            /\ activities[i].board_id = boardId /\ activities[i].entity_type = "member"
            /\ activities[i].entity_id = userId
    THEN "member"
    ELSE "none"

getBoardRole(userId, boardId) ==
  IF <<boardId, userId>> \in DOMAIN board_members
    THEN board_members[<<boardId, userId>>]
    ELSE NoRole

\* a plausible slip: every role of the board may write
canWriteAnyRole(role) == role \in {"owner", "member", "viewer"}

canWrite(role) == role = "owner" \/ role = "member"

(***************************************************************************)
(* Calendar dates.  A DATE column holds <<year, month, day>>; the text the *)
(* server exchanges with the database and the client is YYYY-MM-DD.        *)
(***************************************************************************)
Digits == <<"0", "1", "2", "3", "4", "5", "6", "7", "8", "9">>

IsDigit(c) == \E i \in 1..10 : Digits[i] = c

DigitValue(c) == (CHOOSE i \in 1..10 : Digits[i] = c) - 1

RECURSIVE ToNumber(_)
ToNumber(s) ==
  IF s = <<>> THEN 0 ELSE 10 * ToNumber(SubSeq(s, 1, Len(s) - 1)) + DigitValue(s[Len(s)])

RECURSIVE Pad(_, _)
Pad(n, width) ==
  IF width = 0 THEN <<>> ELSE Append(Pad(n \div 10, width - 1), Digits[(n % 10) + 1])

IsLeapYear(y) == y % 4 = 0 /\ (y % 100 # 0 \/ y % 400 = 0)

\* month is 0-based, as in Date
DaysInMonth(y, m) ==
  CASE m = 1 -> IF IsLeapYear(y) THEN 29 ELSE 28
    [] m \in {3, 5, 8, 10} -> 30
    [] OTHER -> 31

\* Date.UTC carries a day outside its month into the months around it
RECURSIVE CarryDays(_, _, _)
CarryDays(y, m, d) ==
  IF d < 1
    THEN LET pm == IF m = 0 THEN 11 ELSE m - 1
             py == IF m = 0 THEN y - 1 ELSE y
         IN CarryDays(py, pm, d + DaysInMonth(py, pm))
  ELSE IF d > DaysInMonth(y, m)
    THEN CarryDays(IF m = 11 THEN y + 1 ELSE y, IF m = 11 THEN 0 ELSE m + 1,
                   d - DaysInMonth(y, m))
  ELSE <<y, m, d>>

\* floor division and the matching remainder, for a month index below 0
FloorDiv(a, b) == IF a >= 0 THEN a \div b ELSE -(((-a) + b - 1) \div b)

\* new Date(Date.UTC(year, monthIndex, day)) as <<getUTCFullYear, getUTCMonth, getUTCDate>>
DateUTC(year, monthIndex, day) ==
  LET full == IF year >= 0 /\ year <= 99 THEN 1900 + year ELSE year
      y == full + FloorDiv(monthIndex, 12)
      m == monthIndex - 12 * FloorDiv(monthIndex, 12)
  IN CarryDays(y, m, day)

\* /^\d{4}-\d{2}-\d{2}$/
MatchesDatePattern(s) ==
  /\ Len(s) = 10
  /\ \A i \in {1, 2, 3, 4, 6, 7, 9, 10} : IsDigit(s[i])
  /\ s[5] = "-"
  /\ s[8] = "-"

normalizeDueDate(value) ==
  LET trimmed == Trim(value)
  IN IF ~MatchesDatePattern(trimmed) THEN Null
     ELSE LET year == ToNumber(SubSeq(trimmed, 1, 4))
              month == ToNumber(SubSeq(trimmed, 6, 7))
              day == ToNumber(SubSeq(trimmed, 9, 10))
              date == DateUTC(year, month - 1, day)
          IN IF date[1] # year \/ date[2] # month - 1 \/ date[3] # day
               THEN Null
               ELSE Some(trimmed)

\* the database reading the text of a DATE parameter
DateIn(text) ==
  <<ToNumber(SubSeq(text, 1, 4)), ToNumber(SubSeq(text, 6, 7)), ToNumber(SubSeq(text, 9, 10))>>

\* the text of a DATE column; the pool's parser for type 1082 returns it as it is
DateOut(date) == Pad(date[1], 4) \o <<"-">> \o Pad(date[2], 2) \o <<"-">> \o Pad(date[3], 2)

\* a nullable DATE parameter, and a nullable DATE column as the handler receives it
DueDateIn(value) == IF value = Null THEN Null ELSE Some(DateIn(value[1]))

DueDateOut(column) == IF column = Null THEN Null ELSE Some(DateOut(column[1]))

(***************************************************************************)
(* resolveBoardAssigneeName: the names of the board's members whose name   *)
(* or email equals the trimmed value, letter case aside.  The query has    *)
(* LIMIT 1 and no ORDER BY, so any one of the matching rows is returned.   *)
(***************************************************************************)
resolveBoardAssigneeName(boardId, assigneeValue) ==
  LET trimmed == Trim(assigneeValue)
  IN IF trimmed = <<>> THEN {}
     ELSE {UserName(u) : u \in {v \in Users :
             /\ <<boardId, v>> \in DOMAIN board_members
             /\ \/ Lower(UserName(v)) = Lower(trimmed)
                \/ Lower(UserEmail(v)) = Lower(trimmed)}}

Activity(boardId, actorUserId, entityType, entityId, action) ==
  [board_id |-> boardId, actor_user_id |-> actorUserId, entity_type |-> entityType,
   entity_id |-> entityId, action |-> action]

logActivity(log, boardId, actorUserId, entityType, entityId, action) ==
  Append(log, Activity(boardId, actorUserId, entityType, entityId, action))

\* the INSERT of logActivity when NOW() returns the time it returned to the INSERT
\* before it: the row is marked as of the same tick of the clock
logActivitySameTick(log, boardId, actorUserId, entityType, entityId, action) ==
  Append(log, Activity(boardId, actorUserId, entityType, entityId, action) @@ [same_tick |-> TRUE])

\* created_at TIMESTAMPTZ NOT NULL DEFAULT NOW() (schema.sql:74) of the row with id i,
\* as the number of the tick of the clock in which it was inserted
CreatedAt(log, i) == Cardinality({j \in 1..i : "same_tick" \notin DOMAIN log[j]})

notifyBoard(boardId, event) ==
  [name |-> "board_changed", room |-> <<"board", boardId>>, event |-> event]

\* a plausible slip: the event for a user goes to the room of the board with that number
notifyUserAsBoard(userId, event) ==
  [name |-> "boards_changed", room |-> <<"board", userId>>, event |-> event]

notifyUser(userId, event) ==
  [name |-> "boards_changed", room |-> <<"user", userId>>, event |-> event]

(***************************************************************************)
(* SQL on the cards table.  A table is a function from the ids of its rows.*)
(***************************************************************************)
Without(table, id) == [r \in DOMAIN table \ {id} |-> table[r]]

With(table, id, row) == [r \in DOMAIN table \cup {id} |-> IF r = id THEN row ELSE table[r]]

\* ORDER BY position ASC, id ASC
Before(table, a, b) ==
  \/ table[a].position < table[b].position
  \/ table[a].position = table[b].position /\ a < b

\* SELECT id FROM cards WHERE column_id = $1 ORDER BY position ASC, id ASC
CardsInColumn(table, columnId) ==
  LET S == {c \in DOMAIN table : table[c].column_id = columnId}
  IN [i \in 1..Cardinality(S) |->
        CHOOSE c \in S : Cardinality({d \in S : Before(table, d, c)}) = i - 1]

\* a plausible slip: the next position from the number of rows, not from the maximum
MaxPositionByCount(rows) == Cardinality(rows) * GAP

\* a plausible slip: MIN where MAX was meant
MinPosition(rows) ==
  IF rows = {} THEN 0 ELSE CHOOSE p \in rows : \A q \in rows : p <= q

\* SELECT COALESCE(MAX(position), 0) FROM <table> WHERE <key> = $1
MaxPosition(rows) ==
  IF rows = {} THEN 0 ELSE CHOOSE p \in rows : \A q \in rows : q <= p

Filter(s, id) ==
  LET keep == {i \in 1..Len(s) : s[i] # id}
  IN [j \in 1..Cardinality(keep) |->
        s[CHOOSE i \in keep : Cardinality({k \in keep : k < i}) = j - 1]]

\* ids.splice(index, 0, id)
Splice(s, index, id) ==
  SubSeq(s, 1, index) \o <<id>> \o SubSeq(s, index + 1, Len(s))

\* UPDATE cards SET position = $1 WHERE id = $2; no row, no change
SetPosition(table, id, position) ==
  IF id \in DOMAIN table THEN [table EXCEPT ![id].position = position] ELSE table

\* for (i = 0; i < ids.length; i += 1) UPDATE cards SET position = (i + 1) * 1000
RenumberFrom(table, ids, from) ==
  [c \in DOMAIN table |->
     IF \E i \in from..Len(ids) : ids[i] = c
       THEN [table[c] EXCEPT !.position = (CHOOSE i \in from..Len(ids) : ids[i] = c) * GAP]
       ELSE table[c]]

Renumber(table, ids) == RenumberFrom(table, ids, 1)

(***************************************************************************)
(* Requests and responses.  seen is the row the handler read before it     *)
(* decided (its local existing / card / comment), body the row it returns. *)
(***************************************************************************)
Request(op, u, args) == [op |-> op, user |-> u, args |-> args]

Response(req, status, seen, body) ==
  [op |-> req.op, user |-> req.user, args |-> req.args, status |-> status,
   seen |-> seen, body |-> body]

\* a plausible slip: the board is notified before the request is refused
RejectNotified(req, status) ==
  /\ last' = Response(req, status, Null, Null)
  /\ emitted' = <<[name |-> "board_changed", room |-> <<"board", 1>>, event |-> "refused"]>>
  /\ UNCHANGED db

\* A response with no write: res.status(...).json({ message }); return
Reject(req, status) ==
  /\ last' = Response(req, status, Null, Null)
  /\ emitted' = <<>>
  /\ UNCHANGED db

\* res.status(403).json({ message }): the refusal of a caller whose role does not
\* allow the request, with the message of the handler's branch
Deny(req, message) ==
  /\ last' = Response(req, 403, Null, Null) @@ [message |-> message]
  /\ emitted' = <<>>
  /\ UNCHANGED db

\* no move-card request is between its BEGIN and its response
Idle == \A r \in DOMAIN tx : tx[r].pc = "done"

(***************************************************************************)
(* The zod schemas: what parse() accepts.                                  *)
(***************************************************************************)
Has(data, field) == field \in DOMAIN data

createBoardSchema(data) == Has(data, "name") /\ data.name # ""

\* an optional string field: absent, or a string (never null)
OptionalString(data, field) == Has(data, field) => data[field] # Null

createColumnSchema(data) == Has(data, "title") /\ data.title # ""

updateColumnSchema(data) == Has(data, "title") => data.title # ""

createCardSchema(data) ==
  /\ Has(data, "title") /\ data.title # ""
  /\ OptionalString(data, "assignee")
  /\ OptionalString(data, "dueDate")

updateCardSchema(data) == Has(data, "title") => data.title # ""

\* z.string().email(): something, an @, something
IsEmail(text) == \E i \in 2..(Len(text) - 1) : text[i] = "@"

addMemberSchema(data) == IsEmail(data.email) /\ data.role \in {"member", "viewer"}

addCommentSchema(data) == Has(data, "body") /\ data.body # <<>>

moveCardSchema(data) == data.toPosition >= 0

(***************************************************************************)
(* POST /api/boards                                                        *)
(***************************************************************************)
DefaultColumns == <<"To Do", "In Progress", "Done">>

CreateBoard(u, data) ==
  LET req == Request("create_board", u, data)
      id == serial.boards
      first == serial.columns
      board == [name |-> data.name, created_by |-> u]
  IN /\ Idle
     /\ IF ~createBoardSchema(data) THEN Reject(req, 400)
        ELSE /\ serial.boards <= MaxBoards
             /\ Len(activities) < MaxActivities
             /\ boards' = With(boards, id, board)
             /\ board_members' = With(board_members, <<id, u>>, "owner")
             /\ columns' = [c \in DOMAIN columns \cup (first..first + 2) |->
                              IF c \in DOMAIN columns THEN columns[c]
                              ELSE [board_id |-> id, title |-> DefaultColumns[c - first + 1],
                                    position |-> (c - first + 1) * GAP]]
             /\ serial' = [serial EXCEPT !.boards = id + 1, !.columns = first + 3]
             /\ activities' = logActivity(activities, id, u, "board", id, "created")
             /\ emitted' = <<notifyBoard(id, "board_created"), notifyUser(u, "board_created")>>
             /\ last' = Response(req, 201, Null, Some(board))
             /\ UNCHANGED <<cards, card_comments>>
     /\ UNCHANGED <<tx, live>>

\* POST /api/boards when the INSERT of logActivity (line 486) fails: the board, its
\* owner row and its columns are committed (line 485), nothing is emitted, and the
\* error handler answers 500
CreateBoardLogFails(u, data) ==
  LET req == Request("create_board", u, data)
      id == serial.boards
      first == serial.columns
      board == [name |-> data.name, created_by |-> u]
  IN /\ Idle
     /\ createBoardSchema(data)
     /\ serial.boards <= MaxBoards
     /\ boards' = With(boards, id, board)
     /\ board_members' = With(board_members, <<id, u>>, "owner")
     /\ columns' = [c \in DOMAIN columns \cup (first..first + 2) |->
                      IF c \in DOMAIN columns THEN columns[c]
                      ELSE [board_id |-> id, title |-> DefaultColumns[c - first + 1],
                            position |-> (c - first + 1) * GAP]]
     /\ serial' = [serial EXCEPT !.boards = id + 1, !.columns = first + 3]
     /\ emitted' = <<>>
     /\ last' = Response(req, 500, Null, Null)
     /\ UNCHANGED <<cards, card_comments, activities, tx, live>>

\* the statements of the create-board transaction that insert a row: the board, the
\* owner row and the three default columns (lines 472-483)
BoardInserts == 2 + Len(DefaultColumns)

\* a plausible slip: no ROLLBACK in the catch block, so the rows inserted before the
\* failure stay
CreateBoardStatementFailsKept(u, data, k) ==
  LET req == Request("create_board", u, data)
      id == serial.boards
      first == serial.columns
      board == [name |-> data.name, created_by |-> u]
      made == IF k >= 2 THEN k - 2 ELSE 0
  IN /\ Idle
     /\ createBoardSchema(data)
     /\ k \in 0..BoardInserts
     /\ k >= 1 => serial.boards <= MaxBoards
     /\ boards' = IF k >= 1 THEN With(boards, id, board) ELSE boards
     /\ board_members' = IF k >= 2 THEN With(board_members, <<id, u>>, "owner") ELSE board_members
     /\ columns' = [c \in DOMAIN columns \cup (first..first + made - 1) |->
                      IF c \in DOMAIN columns THEN columns[c]
                      ELSE [board_id |-> id, title |-> DefaultColumns[c - first + 1],
                            position |-> (c - first + 1) * GAP]]
     /\ serial' = [serial EXCEPT !.boards = IF k >= 1 THEN id + 1 ELSE id,
                                 !.columns = first + made]
     /\ emitted' = <<>>
     /\ last' = Response(req, 500, Null, Null)
     /\ UNCHANGED <<cards, card_comments, activities, tx, live>>

\* POST /api/boards when a statement between BEGIN (line 471) and COMMIT (line 485),
\* COMMIT included, fails after k of the five INSERTs have run: the catch block runs
\* ROLLBACK (line 497) and the error handler answers 500.  The ids the INSERTs drew
\* from the sequences are not given back.
CreateBoardStatementFails(u, data, k) ==
  LET req == Request("create_board", u, data)
      made == IF k >= 2 THEN k - 2 ELSE 0
  IN /\ Idle
     /\ createBoardSchema(data)
     /\ k \in 0..BoardInserts
     /\ k >= 1 => serial.boards <= MaxBoards
     /\ serial' = [serial EXCEPT !.boards = IF k >= 1 THEN @ + 1 ELSE @,
                                 !.columns = @ + made]
     /\ emitted' = <<>>
     /\ last' = Response(req, 500, Null, Null)
     /\ UNCHANGED <<boards, board_members, columns, cards, card_comments, activities, tx, live>>

(***************************************************************************)
(* POST /api/boards/:boardId/members                                       *)
(***************************************************************************)
\* SELECT id, name, email FROM users WHERE email = $1, with the email lower-cased
UsersByEmail(email) == {v \in Users : UserEmail(v) = Lower(email)}

\* a plausible slip: the write roles may manage members
isOwnerOrMember(role) == role \in {"owner", "member"}

\* role === 'owner'
isOwner(role) == role = "owner"

\* a plausible slip: a plain INSERT, which the primary key refuses for a member
AddMemberInsertOnly(u, boardId, data) ==
  LET req == Request("add_member", u, [boardId |-> boardId, data |-> data])
  IN /\ Idle
     /\ IF ~addMemberSchema(data) THEN Reject(req, 400)
        ELSE IF ~isOwner(getBoardRole(u, boardId)) THEN Deny(req, "Only board owners can add members")
        ELSE IF UsersByEmail(data.email) = {} THEN Reject(req, 404)
        ELSE LET targetUser == CHOOSE v \in UsersByEmail(data.email) : TRUE
             IN IF <<boardId, targetUser>> \in DOMAIN board_members THEN Reject(req, 500)
                ELSE /\ Len(activities) < MaxActivities
                     /\ board_members' = With(board_members, <<boardId, targetUser>>, data.role)
                     /\ activities' = logActivity(activities, boardId, u, "member", targetUser, "added")
                     /\ emitted' = <<notifyBoard(boardId, "member_added"),
                                     notifyUser(targetUser, "board_added_to_user")>>
                     /\ last' = Response(req, 201, Null, Null)
                     /\ UNCHANGED <<boards, columns, cards, card_comments, serial>>
     /\ UNCHANGED <<tx, live>>

AddMember(u, boardId, data) ==
  LET req == Request("add_member", u, [boardId |-> boardId, data |-> data])
  IN /\ Idle
     /\ IF ~addMemberSchema(data) THEN Reject(req, 400)
        ELSE IF ~isOwner(getBoardRole(u, boardId)) THEN Deny(req, "Only board owners can add members")
        ELSE IF UsersByEmail(data.email) = {} THEN Reject(req, 404)
        ELSE LET targetUser == CHOOSE v \in UsersByEmail(data.email) : TRUE
             IN /\ Len(activities) < MaxActivities
                /\ board_members' = With(board_members, <<boardId, targetUser>>, data.role)
                /\ activities' = logActivity(activities, boardId, u, "member", targetUser, "added")
                /\ emitted' = <<notifyBoard(boardId, "member_added"),
                                notifyUser(targetUser, "board_added_to_user")>>
                /\ last' = Response(req, 201, Null, Null)
                /\ UNCHANGED <<boards, columns, cards, card_comments, serial>>
     /\ UNCHANGED <<tx, live>>

(***************************************************************************)
(* POST /api/boards/:boardId/columns                                       *)
(***************************************************************************)
BoardPositions(boardId) ==
  {columns[c].position : c \in {k \in DOMAIN columns : columns[k].board_id = boardId}}

CreateColumn(u, boardId, data) ==
  LET req == Request("create_column", u, [boardId |-> boardId, data |-> data])
      role == getBoardRole(u, boardId)
  IN /\ Idle
     /\ IF ~createColumnSchema(data) THEN Reject(req, 400)
        ELSE IF role = NoRole THEN Deny(req, "Not authorized for this board")
        ELSE IF ~canWrite(role) THEN Deny(req, "Board role cannot modify columns")
        ELSE LET id == serial.columns
                 column == [board_id |-> boardId, title |-> data.title,
                            position |-> MaxPosition(BoardPositions(boardId)) + GAP]
             IN /\ serial.columns <= MaxColumns
                /\ Len(activities) < MaxActivities
                /\ columns' = With(columns, id, column)
                /\ serial' = [serial EXCEPT !.columns = id + 1]
                /\ activities' = logActivity(activities, boardId, u, "column", id, "created")
                /\ emitted' = <<notifyBoard(boardId, "column_created")>>
                /\ last' = Response(req, 201, Null, Some(column))
                /\ UNCHANGED <<boards, board_members, cards, card_comments>>
     /\ UNCHANGED <<tx, live>>

(***************************************************************************)
(* PATCH /api/columns/:columnId                                            *)
(***************************************************************************)
\* lines 756-758
hasColumnChanges(next, existing) ==
  next.title # existing.title \/ next.position # existing.position

UpdateColumn(u, columnId, data) ==
  LET req == Request("update_column", u, [columnId |-> columnId, data |-> data])
  IN /\ Idle
     /\ IF ~updateColumnSchema(data) THEN Reject(req, 400)
        ELSE IF columnId \notin DOMAIN columns THEN Reject(req, 404)
        ELSE LET existing == columns[columnId]
                 role == getBoardRole(u, existing.board_id)
                 next == [existing EXCEPT
                            !.title = IF Has(data, "title") THEN data.title ELSE @,
                            !.position = IF Has(data, "position") THEN data.position ELSE @]
             IN IF role = NoRole \/ ~canWrite(role) THEN Deny(req, "Not authorized to modify this column")
                ELSE IF ~hasColumnChanges(next, existing)
                  THEN /\ last' = Response(req, 200, Some(existing), Some(columns[columnId]))
                       /\ emitted' = <<>>
                       /\ UNCHANGED db
                ELSE /\ Len(activities) < MaxActivities
                     /\ columns' = [columns EXCEPT ![columnId] = next]
                     /\ activities' = logActivity(activities, existing.board_id, u, "column", columnId, "updated")
                     /\ emitted' = <<notifyBoard(existing.board_id, "column_updated")>>
                     /\ last' = Response(req, 200, Some(existing), Some(next))
                     /\ UNCHANGED <<boards, board_members, cards, card_comments, serial>>
     /\ UNCHANGED <<tx, live>>

(***************************************************************************)
(* POST /api/columns/:columnId/cards                                       *)
(***************************************************************************)
\* the row a handler reads: the DATE column arrives as text
CardRow(card) == [card EXCEPT !.due_date = DueDateOut(card.due_date)]

ColumnPositions(columnId) ==
  {cards[c].position : c \in {k \in DOMAIN cards : cards[k].column_id = columnId}}

CreateCard(u, columnId, data) ==
  LET req == Request("create_card", u, [columnId |-> columnId, data |-> data])
  IN /\ Idle
     /\ IF ~createCardSchema(data) THEN Reject(req, 400)
        ELSE IF columnId \notin DOMAIN columns THEN Reject(req, 404)
        ELSE LET boardId == columns[columnId].board_id
                 role == getBoardRole(u, boardId)
                 dueDate == IF Has(data, "dueDate") THEN normalizeDueDate(data.dueDate[1]) ELSE Null
                 names == IF Has(data, "assignee")
                            THEN resolveBoardAssigneeName(boardId, data.assignee[1]) ELSE {}
             IN IF role = NoRole \/ ~canWrite(role) THEN Deny(req, "Not authorized to add cards")
                ELSE IF Has(data, "dueDate") /\ dueDate = Null THEN Reject(req, 400)
                ELSE IF Has(data, "assignee") /\ names = {} THEN Reject(req, 400)
                ELSE \E assignee \in IF Has(data, "assignee") THEN {Some(n) : n \in names} ELSE {Null} :
                  LET position == MaxPosition(ColumnPositions(columnId)) + GAP
                      id == serial.cards
                      card == [board_id |-> boardId, column_id |-> columnId, title |-> data.title,
                               description |-> IF Has(data, "description") THEN data.description ELSE "",
                               assignee |-> assignee, due_date |-> DueDateIn(dueDate),
                               position |-> position]
                  IN /\ serial.cards <= MaxCards
                     /\ Len(activities) < MaxActivities
                     /\ cards' = With(cards, id, card)
                     /\ serial' = [serial EXCEPT !.cards = id + 1]
                     /\ activities' = logActivity(activities, boardId, u, "card", id, "created")
                     /\ emitted' = <<notifyBoard(boardId, "card_created")>>
                     /\ last' = Response(req, 201, Null, Some(CardRow(card)))
                     /\ UNCHANGED <<boards, board_members, columns, card_comments>>
     /\ UNCHANGED <<tx, live>>

(***************************************************************************)
(* PATCH /api/cards/:cardId                                                *)
(***************************************************************************)
\* a plausible slip: an assignee that is not sent is cleared like a null
NextAssigneesCleared(data, existing) ==
  IF ~Has(data, "assignee") \/ data.assignee = Null \/ Trim(data.assignee[1]) = <<>> THEN {Null}
  ELSE {Some(n) : n \in resolveBoardAssigneeName(existing.board_id, data.assignee[1])}

\* lines 898-910: the assignees the request may resolve to; none when it names no member
NextAssignees(data, existing) ==
  IF ~Has(data, "assignee") THEN {existing.assignee}
  ELSE IF data.assignee = Null \/ Trim(data.assignee[1]) = <<>> THEN {Null}
  ELSE {Some(n) : n \in resolveBoardAssigneeName(existing.board_id, data.assignee[1])}

\* lines 912-924: the due date of the request; "invalid" when it is no calendar date
NextDueDate(data, existing) ==
  IF ~Has(data, "dueDate") THEN existing.due_date
  ELSE IF data.dueDate = Null \/ Trim(data.dueDate[1]) = <<>> THEN Null
  ELSE IF normalizeDueDate(data.dueDate[1]) = Null THEN Some(<<"invalid">>)
  ELSE normalizeDueDate(data.dueDate[1])

\* a plausible slip: no comparison with the stored row, every request is written
hasCardChangesAlways(next, existing) == TRUE

\* lines 926-930
hasCardChanges(next, existing) ==
  \/ next.title # existing.title
  \/ next.description # existing.description
  \/ next.assignee # existing.assignee
  \/ next.due_date # existing.due_date

UpdateCard(u, cardId, data) ==
  LET req == Request("update_card", u, [cardId |-> cardId, data |-> data])
  IN /\ Idle
     /\ IF ~updateCardSchema(data) THEN Reject(req, 400)
        ELSE IF cardId \notin DOMAIN cards THEN Reject(req, 404)
        ELSE LET existing == CardRow(cards[cardId])
                 role == getBoardRole(u, existing.board_id)
                 nextDueDate == NextDueDate(data, existing)
             IN IF role = NoRole \/ ~canWrite(role) THEN Deny(req, "Not authorized to update cards")
                ELSE IF NextAssignees(data, existing) = {} THEN Reject(req, 400)
                ELSE IF nextDueDate = Some(<<"invalid">>) THEN Reject(req, 400)
                ELSE \E nextAssignee \in NextAssignees(data, existing) :
                  LET next == [existing EXCEPT
                                 !.title = IF Has(data, "title") THEN data.title ELSE @,
                                 !.description = IF Has(data, "description") THEN data.description ELSE @,
                                 !.assignee = nextAssignee,
                                 !.due_date = nextDueDate]
                      row == [next EXCEPT !.due_date = DueDateIn(nextDueDate)]
                  IN IF ~hasCardChanges(next, existing)
                       THEN /\ last' = Response(req, 200, Some(existing), Some(CardRow(cards[cardId])))
                            /\ emitted' = <<>>
                            /\ UNCHANGED db
                       ELSE /\ Len(activities) < MaxActivities
                            /\ cards' = [cards EXCEPT ![cardId] = row]
                            /\ activities' = logActivity(activities, existing.board_id, u, "card", cardId, "updated")
                            /\ emitted' = <<notifyBoard(existing.board_id, "card_updated")>>
                            /\ last' = Response(req, 200, Some(existing), Some(CardRow(row)))
                            /\ UNCHANGED <<boards, board_members, columns, card_comments, serial>>
     /\ UNCHANGED <<tx, live>>

(***************************************************************************)
(* POST /api/cards/:cardId/move, run alone from BEGIN to the response.     *)
(***************************************************************************)
\* a plausible slip: the card always appended, the requested index ignored
TargetIdsAppend(table, cardId, data) ==
  Append(Filter(CardsInColumn(table, data.toColumnId), cardId), cardId)

\* a plausible slip: the requested index read as 1-based
TargetIdsOffByOne(table, cardId, data) ==
  LET ids == Filter(CardsInColumn(table, data.toColumnId), cardId)
  IN Splice(ids, Min(data.toPosition + 1, Len(ids)), cardId)

\* lines 1055-1057: the target column's ids without the card, the card spliced in
TargetIds(table, cardId, data) ==
  LET ids == Filter(CardsInColumn(table, data.toColumnId), cardId)
      insertionIndex == Min(data.toPosition, Len(ids))
  IN Splice(ids, insertionIndex, cardId)

\* a plausible slip: the source column left as it was
MoveWritesTargetOnly(table, cardId, fromColumnId, data) ==
  LET moved == [table EXCEPT ![cardId].column_id = data.toColumnId]
  IN Renumber(moved, TargetIds(moved, cardId, data))

\* lines 1046-1073: the card's column, the target list, then the source list
MoveWrites(table, cardId, fromColumnId, data) ==
  LET moved == [table EXCEPT ![cardId].column_id = data.toColumnId]
      target == Renumber(moved, TargetIds(moved, cardId, data))
  IN Renumber(target, CardsInColumn(target, fromColumnId))

\* a plausible slip: a move that leaves every position as it was is treated as a
\* no-op edit, answered with the card and neither logged nor broadcast
MoveCardQuietWhenSame(u, cardId, data) ==
  LET req == Request("move_card", u, [cardId |-> cardId] @@ data)
  IN /\ Idle
     /\ IF ~moveCardSchema(data) THEN Reject(req, 400)
        ELSE IF cardId \notin DOMAIN cards THEN Reject(req, 404)
        ELSE LET card == cards[cardId]
                 role == getBoardRole(u, card.board_id)
             IN IF role = NoRole \/ ~canWrite(role) THEN Deny(req, "Not authorized to move cards")
                ELSE IF \/ data.toColumnId \notin DOMAIN columns
                        \/ columns[data.toColumnId].board_id # card.board_id
                  THEN Reject(req, 400)
                ELSE LET after == MoveWrites(cards, cardId, card.column_id, data)
                     IN /\ Len(activities) < MaxActivities
                        /\ cards' = after
                        /\ activities' = IF after = cards THEN activities
                                         ELSE logActivity(activities, card.board_id, u, "card", cardId, "moved")
                        /\ emitted' = IF after = cards THEN <<>>
                                      ELSE <<notifyBoard(card.board_id, "card_moved")>>
                        /\ last' = Response(req, 200, Some(card), Some(CardRow(after[cardId])))
                        /\ UNCHANGED <<boards, board_members, columns, card_comments, serial>>
     /\ UNCHANGED <<tx, live>>

\* a plausible slip: the target column is looked up, its board is not compared
MoveCardAnyBoard(u, cardId, data) ==
  LET req == Request("move_card", u, [cardId |-> cardId] @@ data)
  IN /\ Idle
     /\ IF ~moveCardSchema(data) THEN Reject(req, 400)
        ELSE IF cardId \notin DOMAIN cards THEN Reject(req, 404)
        ELSE LET card == cards[cardId]
                 role == getBoardRole(u, card.board_id)
             IN IF role = NoRole \/ ~canWrite(role) THEN Deny(req, "Not authorized to move cards")
                ELSE IF data.toColumnId \notin DOMAIN columns THEN Reject(req, 400)
                ELSE LET after == MoveWrites(cards, cardId, card.column_id, data)
                     IN /\ Len(activities) < MaxActivities
                        /\ cards' = after
                        /\ activities' = logActivity(activities, card.board_id, u, "card", cardId, "moved")
                        /\ emitted' = <<notifyBoard(card.board_id, "card_moved")>>
                        /\ last' = Response(req, 200, Some(card), Some(CardRow(after[cardId])))
                        /\ UNCHANGED <<boards, board_members, columns, card_comments, serial>>
     /\ UNCHANGED <<tx, live>>

MoveCard(u, cardId, data) ==
  LET req == Request("move_card", u, [cardId |-> cardId] @@ data)
  IN /\ Idle
     /\ IF ~moveCardSchema(data) THEN Reject(req, 400)
        ELSE IF cardId \notin DOMAIN cards THEN Reject(req, 404)
        ELSE LET card == cards[cardId]
                 role == getBoardRole(u, card.board_id)
             IN IF role = NoRole \/ ~canWrite(role) THEN Deny(req, "Not authorized to move cards")
                ELSE IF \/ data.toColumnId \notin DOMAIN columns
                        \/ columns[data.toColumnId].board_id # card.board_id
                  THEN Reject(req, 400)
                ELSE LET after == MoveWrites(cards, cardId, card.column_id, data)
                     IN /\ Len(activities) < MaxActivities
                        /\ cards' = after
                        /\ activities' = logActivity(activities, card.board_id, u, "card", cardId, "moved")
                        /\ emitted' = <<notifyBoard(card.board_id, "card_moved")>>
                        /\ last' = Response(req, 200, Some(card), Some(CardRow(after[cardId])))
                        /\ UNCHANGED <<boards, board_members, columns, card_comments, serial>>
     /\ UNCHANGED <<tx, live>>

(***************************************************************************)
(* DELETE /api/cards/:cardId                                               *)
(***************************************************************************)
\* ON DELETE CASCADE of card_comments.card_id
CommentsWithoutCard(cardId) ==
  [c \in {k \in DOMAIN card_comments : card_comments[k].card_id # cardId} |-> card_comments[c]]

DeleteCard(u, cardId) ==
  LET req == Request("delete_card", u, [cardId |-> cardId])
  IN /\ Idle
     /\ IF cardId \notin DOMAIN cards THEN Reject(req, 404)
        ELSE LET existing == cards[cardId]
                 role == getBoardRole(u, existing.board_id)
             IN IF role = NoRole \/ ~canWrite(role) THEN Deny(req, "Not authorized to delete cards")
                ELSE /\ Len(activities) < MaxActivities
                     /\ cards' = Without(cards, cardId)
                     /\ card_comments' = CommentsWithoutCard(cardId)
                     /\ activities' = logActivity(activities, existing.board_id, u, "card", cardId, "deleted")
                     /\ emitted' = <<notifyBoard(existing.board_id, "card_deleted")>>
                     /\ last' = Response(req, 204, Some(existing), Null)
                     /\ UNCHANGED <<boards, board_members, columns, serial>>
     /\ UNCHANGED <<tx, live>>

(***************************************************************************)
(* POST /api/cards/:cardId/comments                                        *)
(***************************************************************************)
AddComment(u, cardId, data) ==
  LET req == Request("add_comment", u, [cardId |-> cardId, data |-> data])
  IN /\ Idle
     /\ IF ~addCommentSchema(data) THEN Reject(req, 400)
        ELSE IF cardId \notin DOMAIN cards THEN Reject(req, 404)
        ELSE LET card == cards[cardId]
                 role == getBoardRole(u, card.board_id)
                 id == serial.card_comments
                 comment == [board_id |-> card.board_id, card_id |-> cardId, user_id |-> u,
                             body |-> Trim(data.body)]
             IN IF role = NoRole \/ ~canWrite(role) THEN Deny(req, "Not authorized to comment on this board")
                ELSE /\ serial.card_comments <= MaxComments
                     /\ Len(activities) < MaxActivities
                     /\ card_comments' = With(card_comments, id, comment)
                     /\ serial' = [serial EXCEPT !.card_comments = id + 1]
                     /\ activities' = logActivity(activities, card.board_id, u, "comment", id, "created")
                     /\ emitted' = <<notifyBoard(card.board_id, "comment_created")>>
                     /\ last' = Response(req, 201, Some(card), Some(comment))
                     /\ UNCHANGED <<boards, board_members, columns, cards>>
     /\ UNCHANGED <<tx, live>>

(***************************************************************************)
(* DELETE /api/comments/:commentId                                         *)
(***************************************************************************)
\* a plausible slip: the author test left open
isCommentAuthorAlways(comment, userId) == TRUE

isCommentAuthor(comment, userId) == comment.user_id = userId

DeleteComment(u, commentId) ==
  LET req == Request("delete_comment", u, [commentId |-> commentId])
  IN /\ Idle
     /\ IF commentId \notin DOMAIN card_comments THEN Reject(req, 404)
        ELSE LET comment == card_comments[commentId]
                 role == getBoardRole(u, comment.board_id)
             IN IF role = NoRole THEN Deny(req, "Not authorized for this board")
                ELSE IF ~isOwner(role) /\ ~isCommentAuthor(comment, u) THEN Deny(req, "Not authorized to delete this comment")
                ELSE /\ Len(activities) < MaxActivities
                     /\ card_comments' = Without(card_comments, commentId)
                     /\ activities' =
                          IF comment.card_id \in DOMAIN cards
                            THEN logActivity(activities, comment.board_id, u, "comment", commentId, "deleted")
                            ELSE activities
                     /\ emitted' = <<notifyBoard(comment.board_id, "comment_deleted")>>
                     /\ last' = Response(req, 204, Some(comment), Null)
                     /\ UNCHANGED <<boards, board_members, columns, cards, serial>>
     /\ UNCHANGED <<tx, live>>

(***************************************************************************)
(* The read endpoints.  They write nothing; the response is all they do.   *)
(***************************************************************************)
Read(req, body) ==
  /\ last' = Response(req, 200, Null, Some(body))
  /\ emitted' = <<>>
  /\ UNCHANGED db

\* GET /api/boards/:boardId
GetBoard(u, boardId) ==
  LET req == Request("get_board", u, [boardId |-> boardId])
      role == getBoardRole(u, boardId)
  IN /\ Idle
     /\ IF role = NoRole THEN Deny(req, "Not authorized for this board")
        ELSE IF boardId \notin DOMAIN boards THEN Reject(req, 404)
        ELSE Read(req, [role |-> role,
                        columns |-> {<<c, columns[c]>> : c \in {k \in DOMAIN columns : columns[k].board_id = boardId}},
                        cards |-> {<<c, CardRow(cards[c])>> : c \in {k \in DOMAIN cards : cards[k].board_id = boardId}}])
     /\ UNCHANGED <<tx, live>>

\* GET /api/boards/:boardId/members
GetMembers(u, boardId) ==
  LET req == Request("get_members", u, [boardId |-> boardId])
  IN /\ Idle
     /\ IF getBoardRole(u, boardId) = NoRole THEN Deny(req, "Not authorized for this board")
        ELSE Read(req, {<<v, board_members[<<boardId, v>>]>> :
                          v \in {w \in Users : <<boardId, w>> \in DOMAIN board_members}})
     /\ UNCHANGED <<tx, live>>

Max(a, b) == IF a > b THEN a ELSE b

\* ORDER BY a.created_at DESC: the orders in which the database may return the rows
\* ids; rows of the same created_at come in any order
RECURSIVE NewestFirst(_, _)
NewestFirst(log, ids) ==
  IF ids = {} THEN {<<>>}
  ELSE LET newest == {i \in ids : \A j \in ids : CreatedAt(log, j) <= CreatedAt(log, i)}
       IN UNION {{<<i>> \o rest : rest \in NewestFirst(log, ids \ {i})} : i \in newest}

\* SELECT a.id, a.board_id, a.actor_user_id, a.entity_type, a.entity_id, a.action, a.created_at
ActivityRow(log, i) ==
  [id |-> i, board_id |-> log[i].board_id, actor_user_id |-> log[i].actor_user_id,
   entity_type |-> log[i].entity_type, entity_id |-> log[i].entity_id,
   action |-> log[i].action, created_at |-> CreatedAt(log, i)]

\* GET /api/boards/:boardId/activities: the newest entries, at most limit of them
GetActivities(u, boardId, limit) ==
  LET req == Request("get_activities", u, [boardId |-> boardId, limit |-> limit])
      clamped == Min(Max(limit, 1), PageCap)
      mine == {i \in 1..Len(activities) : activities[i].board_id = boardId}
      shown == Min(clamped, Cardinality(mine))
  IN /\ Idle
     /\ IF getBoardRole(u, boardId) = NoRole THEN Deny(req, "Not authorized for this board")
        ELSE \E order \in NewestFirst(activities, mine) :
               Read(req, [k \in 1..shown |-> ActivityRow(activities, order[k])])
     /\ UNCHANGED <<tx, live>>

\* GET /api/cards/:cardId/comments
GetComments(u, cardId) ==
  LET req == Request("get_comments", u, [cardId |-> cardId])
  IN /\ Idle
     /\ IF cardId \notin DOMAIN cards THEN Reject(req, 404)
        ELSE IF getBoardRole(u, cards[cardId].board_id) = NoRole THEN Deny(req, "Not authorized for this board")
        ELSE Read(req, {<<c, card_comments[c]>> :
                          c \in {k \in DOMAIN card_comments : card_comments[k].card_id = cardId}})
     /\ UNCHANGED <<tx, live>>

(***************************************************************************)
(* POST /api/cards/:cardId/move, statement by statement, for requests that *)
(* overlap.  Every await of the handler is a step.  The database runs each *)
(* statement at READ COMMITTED: it sees what is committed when it runs and *)
(* the transaction's own writes.  SELECT ... FOR UPDATE and UPDATE take    *)
(* the row's lock and wait while another transaction holds it; the locks   *)
(* are released at COMMIT or ROLLBACK.  tx[r].writes are the rows the      *)
(* transaction has written and not committed, tx[r].locked its row locks,  *)
(* tx[r].overlapped the requests in flight at some time during request r.  *)
(***************************************************************************)
Requests == 1..MaxRequests

InFlight == {r \in DOMAIN tx : tx[r].pc # "done"}

At(r, pc) == r \in DOMAIN tx /\ tx[r].pc = pc

\* the cards table as request r's transaction sees it
View(r) ==
  [c \in DOMAIN cards |-> IF c \in DOMAIN tx[r].writes THEN tx[r].writes[c] ELSE cards[c]]

LockedByOther(r, id) == \E o \in InFlight \ {r} : id \in tx[o].locked

\* client.query('ROLLBACK') and the response: the writes are dropped, the locks released
Finish(r, status, body) ==
  LET req == Request("move_card", tx[r].user, [cardId |-> tx[r].cardId] @@ tx[r].data)
      response == Response(req, status, tx[r].card, body)
  IN /\ tx' = [tx EXCEPT ![r].pc = "done", ![r].writes = <<>>, ![r].locked = {},
                         ![r].response = response]
     /\ last' = response

\* line 1014 and 1021: parse the body, BEGIN.  Requests are numbered as they arrive.
MoveBegin(r, u, cardId, data) ==
  /\ r = Cardinality(DOMAIN tx) + 1
  /\ Len(activities) + Cardinality(InFlight) < MaxActivities
  /\ LET others == InFlight
         fresh == [pc |-> IF moveCardSchema(data) THEN "lock" ELSE "done",
                   user |-> u, cardId |-> cardId, data |-> data, card |-> Null,
                   ids |-> <<>>, i |-> 1, writes |-> <<>>, locked |-> {},
                   overlapped |-> others,
                   response |-> Response(Request("move_card", u, [cardId |-> cardId] @@ data),
                                         400, Null, Null)]
     IN /\ tx' = [o \in DOMAIN tx \cup {r} |->
                    IF o = r THEN fresh
                    ELSE IF o \in others THEN [tx[o] EXCEPT !.overlapped = @ \cup {r}]
                    ELSE tx[o]]
        /\ IF moveCardSchema(data)
             THEN UNCHANGED <<last, emitted>>
             ELSE last' = fresh.response /\ emitted' = <<>>
  /\ UNCHANGED db
  /\ UNCHANGED live

\* a plausible slip: the SELECT without FOR UPDATE, which waits for nobody and locks
\* nothing
MoveLockCardNoWait(r) ==
  /\ At(r, "lock")
  /\ IF tx[r].cardId \notin DOMAIN cards
       THEN Finish(r, 404, Null) /\ emitted' = <<>>
       ELSE /\ tx' = [tx EXCEPT ![r].pc = "role", ![r].card = Some(cards[tx[r].cardId])]
            /\ UNCHANGED <<last, emitted>>
  /\ UNCHANGED db
  /\ UNCHANGED live

\* line 1023: SELECT ... FROM cards WHERE id = $1 FOR UPDATE
MoveLockCard(r) ==
  /\ At(r, "lock")
  /\ IF tx[r].cardId \notin DOMAIN cards
       THEN Finish(r, 404, Null) /\ emitted' = <<>>
       ELSE /\ ~LockedByOther(r, tx[r].cardId)
            /\ tx' = [tx EXCEPT ![r].pc = "role", ![r].locked = @ \cup {tx[r].cardId},
                                ![r].card = Some(cards[tx[r].cardId])]
            /\ UNCHANGED <<last, emitted>>
  /\ UNCHANGED db
  /\ UNCHANGED live

\* line 1032: getBoardRole, on a connection of the pool
MoveCheckRole(r) ==
  /\ At(r, "role")
  /\ LET role == getBoardRole(tx[r].user, tx[r].card[1].board_id)
     IN IF role = NoRole \/ ~canWrite(role)
          THEN Finish(r, 403, Null) /\ emitted' = <<>>
          ELSE tx' = [tx EXCEPT ![r].pc = "target"] /\ UNCHANGED <<last, emitted>>
  /\ UNCHANGED db
  /\ UNCHANGED live

\* line 1039: SELECT id, board_id FROM columns WHERE id = $1
MoveCheckTarget(r) ==
  /\ At(r, "target")
  /\ IF \/ tx[r].data.toColumnId \notin DOMAIN columns
        \/ columns[tx[r].data.toColumnId].board_id # tx[r].card[1].board_id
       THEN Finish(r, 400, Null) /\ emitted' = <<>>
       ELSE tx' = [tx EXCEPT ![r].pc = "column"] /\ UNCHANGED <<last, emitted>>
  /\ UNCHANGED db
  /\ UNCHANGED live

\* the row an UPDATE of request r writes to: its own version, or the committed one
Current(r, id) == IF id \in DOMAIN tx[r].writes THEN tx[r].writes[id] ELSE cards[id]

\* line 1046: UPDATE cards SET column_id = $1 WHERE id = $2
MoveSetColumn(r) ==
  /\ At(r, "column")
  /\ LET id == tx[r].cardId
         row == [Current(r, id) EXCEPT !.column_id = tx[r].data.toColumnId]
     IN tx' = [tx EXCEPT ![r].pc = "readtarget", ![r].writes = With(@, id, row)]
  /\ UNCHANGED <<db, last, emitted>>
  /\ UNCHANGED live

\* lines 1048-1057: the target column's ids, the card spliced in
MoveReadTarget(r) ==
  /\ At(r, "readtarget")
  /\ tx' = [tx EXCEPT ![r].pc = "writetarget", ![r].i = 1,
                      ![r].ids = TargetIds(View(r), tx[r].cardId, tx[r].data)]
  /\ UNCHANGED <<db, last, emitted>>
  /\ UNCHANGED live

\* lines 1060 and 1072: UPDATE cards SET position = $1 WHERE id = $2, once per turn
\* of either loop
MoveWritePosition(r) ==
  /\ r \in DOMAIN tx
  /\ tx[r].pc \in {"writetarget", "writesource"}
  /\ LET id == tx[r].ids[tx[r].i]
         row == [Current(r, id) EXCEPT !.position = tx[r].i * GAP]
         more == tx[r].i < Len(tx[r].ids)
         next == IF more THEN tx[r].pc
                 ELSE IF tx[r].pc = "writetarget" THEN "readsource" ELSE "commit"
     IN /\ ~LockedByOther(r, id)
        /\ tx' = [tx EXCEPT ![r].pc = next, ![r].i = IF more THEN @ + 1 ELSE @,
                            ![r].writes = With(@, id, row), ![r].locked = @ \cup {id}]
  /\ UNCHANGED <<db, last, emitted>>
  /\ UNCHANGED live

\* lines 1063-1068: the source column's ids
MoveReadSource(r) ==
  /\ At(r, "readsource")
  /\ LET ids == CardsInColumn(View(r), tx[r].card[1].column_id)
     IN tx' = [tx EXCEPT ![r].pc = IF ids = <<>> THEN "commit" ELSE "writesource",
                         ![r].i = 1, ![r].ids = ids]
  /\ UNCHANGED <<db, last, emitted>>
  /\ UNCHANGED live

\* lines 1075-1082: the moved card is read back, COMMIT
MoveCommit(r) ==
  /\ At(r, "commit")
  /\ cards' = View(r)
  /\ tx' = [tx EXCEPT ![r].pc = "log", ![r].writes = <<>>, ![r].locked = {},
                      ![r].response = Response(Request("move_card", tx[r].user,
                                                       [cardId |-> tx[r].cardId] @@ tx[r].data),
                                               200, tx[r].card, Some(CardRow(View(r)[tx[r].cardId])))]
  /\ UNCHANGED <<boards, board_members, columns, card_comments, activities, serial, last, emitted>>
  /\ UNCHANGED live

\* line 1084: logActivity
MoveLogActivity(r) ==
  /\ At(r, "log")
  /\ activities' = logActivity(activities, tx[r].card[1].board_id, tx[r].user, "card",
                               tx[r].cardId, "moved")
  /\ tx' = [tx EXCEPT ![r].pc = "respond"]
  /\ UNCHANGED <<boards, board_members, columns, cards, card_comments, serial, last, emitted>>
  /\ UNCHANGED live

\* line 1084 when the clock has not advanced since the INSERT into activities of a
\* request that overlapped with this one: both rows get the same created_at
MoveLogActivitySameTick(r) ==
  /\ At(r, "log")
  /\ activities # <<>>
  /\ \E o \in tx[r].overlapped :
       /\ tx[o].pc \in {"respond", "done"}
       /\ tx[o].response.status = 200 \/ tx[o].pc = "respond"
       /\ activities[Len(activities)].action = "moved"
       /\ activities[Len(activities)].entity_id = tx[o].cardId
  /\ activities' = logActivitySameTick(activities, tx[r].card[1].board_id, tx[r].user, "card",
                                       tx[r].cardId, "moved")
  /\ tx' = [tx EXCEPT ![r].pc = "respond"]
  /\ UNCHANGED <<boards, board_members, columns, cards, card_comments, serial, last, emitted>>
  /\ UNCHANGED live

\* line 1084 when the INSERT of logActivity fails: the error is thrown after COMMIT,
\* the catch block's ROLLBACK finds no transaction, and the error handler answers 500
MoveLogActivityFails(r) ==
  /\ At(r, "log")
  /\ tx' = [tx EXCEPT ![r].pc = "done",
                      ![r].response = Response(Request("move_card", tx[r].user,
                                                       [cardId |-> tx[r].cardId] @@ tx[r].data),
                                               500, tx[r].card, Null)]
  /\ last' = Response(Request("move_card", tx[r].user, [cardId |-> tx[r].cardId] @@ tx[r].data),
                      500, tx[r].card, Null)
  /\ emitted' = <<>>
  /\ UNCHANGED <<db, live>>

\* the steps of a move-card request between BEGIN and COMMIT
BeforeCommit ==
  {"lock", "role", "target", "column", "readtarget", "writetarget", "readsource",
   "writesource", "commit"}

\* a plausible slip: the statements run outside a transaction, so that the rows
\* written before the failure stay written
MoveStatementFailsNoRollback(r) ==
  /\ r \in DOMAIN tx /\ tx[r].pc \in BeforeCommit
  /\ Finish(r, 500, Null)
  /\ cards' = View(r)
  /\ emitted' = <<>>
  /\ UNCHANGED <<boards, board_members, columns, card_comments, activities, serial, live>>

\* lines 1095-1097: a statement between BEGIN and COMMIT fails (storage error); the
\* catch block runs ROLLBACK and hands the error to the error handler, which answers 500
MoveStatementFails(r) ==
  /\ r \in DOMAIN tx /\ tx[r].pc \in BeforeCommit
  /\ Finish(r, 500, Null)
  /\ emitted' = <<>>
  /\ UNCHANGED <<db, live>>

\* lines 1093-1094: notifyBoard, res.json
MoveRespond(r) ==
  /\ At(r, "respond")
  /\ emitted' = <<notifyBoard(tx[r].card[1].board_id, "card_moved")>>
  /\ last' = tx[r].response
  /\ tx' = [tx EXCEPT ![r].pc = "done"]
  /\ UNCHANGED db
  /\ UNCHANGED live

\* the request whose lock request r waits for, if it waits
Wanted(r) ==
  IF tx[r].pc = "lock" THEN {tx[r].cardId}
  ELSE IF tx[r].pc \in {"writetarget", "writesource"} THEN {tx[r].ids[tx[r].i]}
  ELSE {}

WaitsFor(r, o) == o # r /\ o \in InFlight /\ Wanted(r) \cap tx[o].locked # {}

RECURSIVE WaitsThrough(_, _, _)
WaitsThrough(a, b, n) ==
  \/ WaitsFor(a, b)
  \/ n > 0 /\ \E o \in InFlight \ {a} : WaitsFor(a, o) /\ WaitsThrough(o, b, n - 1)

\* The database finds the transactions waiting for each other and fails the statement
\* of one of them: the handler's catch runs ROLLBACK and hands the error on (500).
MoveDeadlock(r) ==
  /\ r \in InFlight
  /\ WaitsThrough(r, r, MaxRequests)
  /\ Finish(r, 500, Null)
  /\ emitted' = <<>>
  /\ UNCHANGED db
  /\ UNCHANGED live

MoveStep(r) ==
  \/ MoveLockCard(r)
  \/ MoveCheckRole(r)
  \/ MoveCheckTarget(r)
  \/ MoveSetColumn(r)
  \/ MoveReadTarget(r)
  \/ MoveWritePosition(r)
  \/ MoveReadSource(r)
  \/ MoveCommit(r)
  \/ MoveLogActivity(r)
  \/ MoveRespond(r)
  \/ MoveDeadlock(r)

(***************************************************************************)
(* DELETE /api/comments/:commentId and DELETE /api/cards/:cardId, statement *)
(* by statement.  Neither handler opens a transaction: every pool.query is *)
(* committed on its own, and other requests run between two of them.       *)
(* A request in flight is [pc, op, user, id, row, changed, logged,         *)
(* response]: changed is the row count of its DELETE, logged the number of *)
(* logActivity calls it has made.                                          *)
(***************************************************************************)
DeleteRequest(r) == Request(tx[r].op, tx[r].user,
                            IF tx[r].op = "delete_comment" THEN [commentId |-> tx[r].id]
                            ELSE [cardId |-> tx[r].id])

\* res.status(status).json(...) or .send(), which ends the request
DeleteFinish(r, status) ==
  /\ tx' = [tx EXCEPT ![r].pc = "done",
                      ![r].response = Response(DeleteRequest(r), status, tx[r].row, Null)]
  /\ last' = Response(DeleteRequest(r), status, tx[r].row, Null)

\* the request arrives; requests are numbered as they arrive
DeleteBegin(r, op, u, id) ==
  /\ r = Cardinality(DOMAIN tx) + 1
  /\ Len(activities) + Cardinality(InFlight) < MaxActivities
  /\ tx' = [o \in DOMAIN tx \cup {r} |->
              IF o = r
                THEN [pc |-> "select", op |-> op, user |-> u, id |-> id, row |-> Null,
                      changed |-> 0, logged |-> 0, response |-> Null]
                ELSE tx[o]]
  /\ UNCHANGED <<db, last, emitted, live>>

\* lines 1197-1207: SELECT ... FROM card_comments WHERE id = $1
DeleteCommentSelect(r) ==
  /\ At(r, "select") /\ tx[r].op = "delete_comment"
  /\ IF tx[r].id \notin DOMAIN card_comments
       THEN DeleteFinish(r, 404) /\ emitted' = <<>>
       ELSE /\ tx' = [tx EXCEPT ![r].pc = "role", ![r].row = Some(card_comments[tx[r].id])]
            /\ UNCHANGED <<last, emitted>>
  /\ UNCHANGED <<db, live>>

\* lines 1209-1221: getBoardRole, isOwner, isCommentAuthor
DeleteCommentCheckRole(r) ==
  /\ At(r, "role") /\ tx[r].op = "delete_comment"
  /\ LET comment == tx[r].row[1]
         role == getBoardRole(tx[r].user, comment.board_id)
     IN IF role = NoRole \/ (~isOwner(role) /\ ~isCommentAuthor(comment, tx[r].user))
          THEN DeleteFinish(r, 403) /\ emitted' = <<>>
          ELSE /\ tx' = [tx EXCEPT ![r].pc = "delete"]
               /\ UNCHANGED <<last, emitted>>
  /\ UNCHANGED <<db, live>>

\* line 1223: DELETE FROM card_comments WHERE id = $1
DeleteCommentDelete(r) ==
  /\ At(r, "delete") /\ tx[r].op = "delete_comment"
  /\ card_comments' = IF tx[r].id \in DOMAIN card_comments
                        THEN Without(card_comments, tx[r].id) ELSE card_comments
  /\ tx' = [tx EXCEPT ![r].pc = "card",
                      ![r].changed = IF tx[r].id \in DOMAIN card_comments THEN 1 ELSE 0]
  /\ UNCHANGED <<boards, board_members, columns, cards, activities, serial, last, emitted, live>>

\* lines 1225-1235: getCardWithBoard, and logActivity if the card is there
DeleteCommentLog(r) ==
  /\ At(r, "card") /\ tx[r].op = "delete_comment"
  /\ LET comment == tx[r].row[1]
     IN IF comment.card_id \in DOMAIN cards
          THEN /\ activities' = logActivity(activities, comment.board_id, tx[r].user,
                                            "comment", tx[r].id, "deleted")
               /\ tx' = [tx EXCEPT ![r].pc = "respond", ![r].logged = @ + 1]
          ELSE /\ tx' = [tx EXCEPT ![r].pc = "respond"]
               /\ UNCHANGED activities
  /\ UNCHANGED <<boards, board_members, columns, cards, card_comments, serial, last, emitted, live>>

\* lines 1237-1238: notifyBoard, res.status(204).send()
DeleteCommentRespond(r) ==
  /\ At(r, "respond") /\ tx[r].op = "delete_comment"
  /\ DeleteFinish(r, 204)
  /\ emitted' = <<notifyBoard(tx[r].row[1].board_id, "comment_deleted")>>
  /\ UNCHANGED <<db, live>>

\* lines 977-981: SELECT id, board_id, title FROM cards WHERE id = $1
DeleteCardSelect(r) ==
  /\ At(r, "select") /\ tx[r].op = "delete_card"
  /\ IF tx[r].id \notin DOMAIN cards
       THEN DeleteFinish(r, 404) /\ emitted' = <<>>
       ELSE /\ tx' = [tx EXCEPT ![r].pc = "role", ![r].row = Some(cards[tx[r].id])]
            /\ UNCHANGED <<last, emitted>>
  /\ UNCHANGED <<db, live>>

\* lines 984-988: getBoardRole, canWrite
DeleteCardCheckRole(r) ==
  /\ At(r, "role") /\ tx[r].op = "delete_card"
  /\ LET role == getBoardRole(tx[r].user, tx[r].row[1].board_id)
     IN IF role = NoRole \/ ~canWrite(role)
          THEN DeleteFinish(r, 403) /\ emitted' = <<>>
          ELSE /\ tx' = [tx EXCEPT ![r].pc = "delete"]
               /\ UNCHANGED <<last, emitted>>
  /\ UNCHANGED <<db, live>>

\* line 990: DELETE FROM cards WHERE id = $1, which cascades to the card's comments
DeleteCardDelete(r) ==
  /\ At(r, "delete") /\ tx[r].op = "delete_card"
  /\ cards' = IF tx[r].id \in DOMAIN cards THEN Without(cards, tx[r].id) ELSE cards
  /\ card_comments' = CommentsWithoutCard(tx[r].id)
  /\ tx' = [tx EXCEPT ![r].pc = "log",
                      ![r].changed = IF tx[r].id \in DOMAIN cards THEN 1 ELSE 0]
  /\ UNCHANGED <<boards, board_members, columns, activities, serial, last, emitted, live>>

\* lines 992-999: logActivity
DeleteCardLog(r) ==
  /\ At(r, "log") /\ tx[r].op = "delete_card"
  /\ activities' = logActivity(activities, tx[r].row[1].board_id, tx[r].user, "card",
                               tx[r].id, "deleted")
  /\ tx' = [tx EXCEPT ![r].pc = "respond", ![r].logged = @ + 1]
  /\ UNCHANGED <<boards, board_members, columns, cards, card_comments, serial, last, emitted, live>>

\* lines 1001-1002: notifyBoard, res.status(204).send()
DeleteCardRespond(r) ==
  /\ At(r, "respond") /\ tx[r].op = "delete_card"
  /\ DeleteFinish(r, 204)
  /\ emitted' = <<notifyBoard(tx[r].row[1].board_id, "card_deleted")>>
  /\ UNCHANGED <<db, live>>

DeleteStep(r) ==
  \/ DeleteCommentSelect(r)
  \/ DeleteCommentCheckRole(r)
  \/ DeleteCommentDelete(r)
  \/ DeleteCommentLog(r)
  \/ DeleteCommentRespond(r)
  \/ DeleteCardSelect(r)
  \/ DeleteCardCheckRole(r)
  \/ DeleteCardDelete(r)
  \/ DeleteCardLog(r)
  \/ DeleteCardRespond(r)

(***************************************************************************)
(* PATCH /api/cards/:cardId, statement by statement.  The handler opens no *)
(* transaction: its SELECT and its UPDATE are committed on their own, and  *)
(* other requests run between them.  A request in flight is [pc, op, user, *)
(* id, data, row, next, response]: row is the handler's existing, next the *)
(* four values it has computed for its UPDATE.                             *)
(***************************************************************************)
PatchRequest(r) == Request("update_card", tx[r].user, [cardId |-> tx[r].id, data |-> tx[r].data])

\* res.status(status).json(...), which ends the request
PatchFinish(r, status, body) ==
  /\ tx' = [tx EXCEPT ![r].pc = "done",
                      ![r].response = Response(PatchRequest(r), status, tx[r].row, body)]
  /\ last' = Response(PatchRequest(r), status, tx[r].row, body)

\* line 863: the request arrives and its body is parsed; requests are numbered as
\* they arrive
PatchBegin(r, u, cardId, data) ==
  /\ r = Cardinality(DOMAIN tx) + 1
  /\ Len(activities) + Cardinality(InFlight) < MaxActivities
  /\ LET req == Request("update_card", u, [cardId |-> cardId, data |-> data])
         fresh == [pc |-> IF updateCardSchema(data) THEN "select" ELSE "done",
                   op |-> "update_card", user |-> u, id |-> cardId, data |-> data,
                   row |-> Null, next |-> Null, response |-> Response(req, 400, Null, Null)]
     IN /\ tx' = [o \in DOMAIN tx \cup {r} |-> IF o = r THEN fresh ELSE tx[o]]
        /\ IF updateCardSchema(data)
             THEN UNCHANGED <<last, emitted>>
             ELSE last' = fresh.response /\ emitted' = <<>>
  /\ UNCHANGED <<db, live>>

\* lines 870-888: SELECT ... FROM cards WHERE id = $1
PatchSelect(r) ==
  /\ At(r, "select") /\ tx[r].op = "update_card"
  /\ IF tx[r].id \notin DOMAIN cards
       THEN PatchFinish(r, 404, Null) /\ emitted' = <<>>
       ELSE /\ tx' = [tx EXCEPT ![r].pc = "role", ![r].row = Some(CardRow(cards[tx[r].id]))]
            /\ UNCHANGED <<last, emitted>>
  /\ UNCHANGED <<db, live>>

\* lines 890-894: getBoardRole, canWrite
PatchCheckRole(r) ==
  /\ At(r, "role") /\ tx[r].op = "update_card"
  /\ LET role == getBoardRole(tx[r].user, tx[r].row[1].board_id)
     IN IF role = NoRole \/ ~canWrite(role)
          THEN PatchFinish(r, 403, Null) /\ emitted' = <<>>
          ELSE /\ tx' = [tx EXCEPT ![r].pc = "resolve"]
               /\ UNCHANGED <<last, emitted>>
  /\ UNCHANGED <<db, live>>

\* lines 896-930: the four next values, each from the payload or else from existing,
\* with resolveBoardAssigneeName when an assignee is named
PatchResolve(r) ==
  /\ At(r, "resolve") /\ tx[r].op = "update_card"
  /\ LET data == tx[r].data
         existing == tx[r].row[1]
         nextDueDate == NextDueDate(data, existing)
     IN IF NextAssignees(data, existing) = {} \/ nextDueDate = Some(<<"invalid">>)
          THEN PatchFinish(r, 400, Null) /\ emitted' = <<>>
          ELSE \E nextAssignee \in NextAssignees(data, existing) :
                 LET next == [existing EXCEPT
                                !.title = IF Has(data, "title") THEN data.title ELSE @,
                                !.description = IF Has(data, "description") THEN data.description ELSE @,
                                !.assignee = nextAssignee,
                                !.due_date = nextDueDate]
                 IN /\ tx' = [tx EXCEPT ![r].pc = IF hasCardChanges(next, existing)
                                                    THEN "update" ELSE "reread",
                                        ![r].next = Some(next)]
                    /\ UNCHANGED <<last, emitted>>
  /\ UNCHANGED <<db, live>>

\* lines 932-941: nothing to change, the card is read again and returned
PatchReread(r) ==
  /\ At(r, "reread") /\ tx[r].op = "update_card"
  /\ PatchFinish(r, 200, IF tx[r].id \in DOMAIN cards THEN Some(CardRow(cards[tx[r].id])) ELSE Null)
  /\ emitted' = <<>>
  /\ UNCHANGED <<db, live>>

\* lines 943-949: UPDATE cards SET title = $1, description = $2, assignee = $3,
\* due_date = $4 WHERE id = $5 RETURNING ...
PatchUpdate(r) ==
  /\ At(r, "update") /\ tx[r].op = "update_card"
  /\ LET next == tx[r].next[1]
         row == IF tx[r].id \notin DOMAIN cards THEN Null
                ELSE Some([cards[tx[r].id] EXCEPT !.title = next.title,
                                                  !.description = next.description,
                                                  !.assignee = next.assignee,
                                                  !.due_date = DueDateIn(next.due_date)])
     IN /\ cards' = IF row = Null THEN cards ELSE [cards EXCEPT ![tx[r].id] = row[1]]
        /\ tx' = [tx EXCEPT ![r].pc = "log",
                            ![r].response = Response(PatchRequest(r), 200, tx[r].row,
                                                     IF row = Null THEN Null ELSE Some(CardRow(row[1])))]
  /\ UNCHANGED <<boards, board_members, columns, card_comments, activities, serial, last, emitted, live>>

\* lines 951-958: logActivity
PatchLog(r) ==
  /\ At(r, "log") /\ tx[r].op = "update_card"
  /\ activities' = logActivity(activities, tx[r].row[1].board_id, tx[r].user, "card",
                               tx[r].id, "updated")
  /\ tx' = [tx EXCEPT ![r].pc = "respond"]
  /\ UNCHANGED <<boards, board_members, columns, cards, card_comments, serial, last, emitted, live>>

\* lines 960-961: notifyBoard, res.json
PatchRespond(r) ==
  /\ At(r, "respond") /\ tx[r].op = "update_card"
  /\ tx' = [tx EXCEPT ![r].pc = "done"]
  /\ last' = tx[r].response
  /\ emitted' = <<notifyBoard(tx[r].row[1].board_id, "card_updated")>>
  /\ UNCHANGED <<db, live>>

PatchStep(r) ==
  \/ PatchSelect(r)
  \/ PatchCheckRole(r)
  \/ PatchResolve(r)
  \/ PatchReread(r)
  \/ PatchUpdate(r)
  \/ PatchLog(r)
  \/ PatchRespond(r)

(***************************************************************************)
(* POST /api/columns/:columnId/cards and POST /api/boards/:boardId/columns,*)
(* statement by statement.  Neither handler opens a transaction: each      *)
(* query is committed on its own and other requests run between them.  A   *)
(* request in flight is [pc, op, user, id, data, board, assignee, dueDate, *)
(* position, created, response]: id is the column or the board of the URL, *)
(* position the value computed from SELECT MAX, created the id of the row  *)
(* the INSERT returned.                                                    *)
(***************************************************************************)
CreateRequest(r) ==
  Request(tx[r].op, tx[r].user,
          IF tx[r].op = "create_card" THEN [columnId |-> tx[r].id, data |-> tx[r].data]
          ELSE [boardId |-> tx[r].id, data |-> tx[r].data])

\* res.status(status).json(...), which ends the request
CreateFinish(r, status, body) ==
  /\ tx' = [tx EXCEPT ![r].pc = "done",
                      ![r].response = Response(CreateRequest(r), status, Null, body)]
  /\ last' = Response(CreateRequest(r), status, Null, body)
  /\ emitted' = <<>>

\* lines 689 and 794: the request arrives and its body is parsed; requests are
\* numbered as they arrive
CreateBegin(r, op, u, id, data) ==
  /\ r = Cardinality(DOMAIN tx) + 1
  /\ Len(activities) + Cardinality(InFlight) < MaxActivities
  /\ LET valid == IF op = "create_card" THEN createCardSchema(data) ELSE createColumnSchema(data)
         args == IF op = "create_card" THEN [columnId |-> id, data |-> data]
                 ELSE [boardId |-> id, data |-> data]
         fresh == [pc |-> IF ~valid THEN "done" ELSE IF op = "create_card" THEN "column" ELSE "role",
                   op |-> op, user |-> u, id |-> id, data |-> data,
                   board |-> IF op = "create_card" THEN 0 ELSE id,
                   assignee |-> Null, dueDate |-> Null, position |-> 0, created |-> 0,
                   response |-> Response(Request(op, u, args), 400, Null, Null)]
     IN /\ tx' = [o \in DOMAIN tx \cup {r} |-> IF o = r THEN fresh ELSE tx[o]]
        /\ IF valid THEN UNCHANGED <<last, emitted>>
           ELSE last' = fresh.response /\ emitted' = <<>>
  /\ UNCHANGED <<db, live>>

\* lines 801-807: SELECT id, board_id FROM columns WHERE id = $1
CreateSelectColumn(r) ==
  /\ At(r, "column") /\ tx[r].op = "create_card"
  /\ IF tx[r].id \notin DOMAIN columns
       THEN CreateFinish(r, 404, Null)
       ELSE /\ tx' = [tx EXCEPT ![r].pc = "role", ![r].board = columns[tx[r].id].board_id]
            /\ UNCHANGED <<last, emitted>>
  /\ UNCHANGED <<db, live>>

\* lines 696-705 and 808-812: getBoardRole, canWrite
CreateCheckRole(r) ==
  /\ At(r, "role") /\ tx[r].op \in {"create_card", "create_column"}
  /\ LET role == getBoardRole(tx[r].user, tx[r].board)
     IN IF role = NoRole \/ ~canWrite(role)
          THEN CreateFinish(r, 403, Null)
          ELSE /\ tx' = [tx EXCEPT ![r].pc = IF tx[r].op = "create_card" THEN "resolve" ELSE "max"]
               /\ UNCHANGED <<last, emitted>>
  /\ UNCHANGED <<db, live>>

\* lines 814-830: normalizeDueDate and resolveBoardAssigneeName
CreateResolve(r) ==
  /\ At(r, "resolve") /\ tx[r].op = "create_card"
  /\ LET data == tx[r].data
         dueDate == IF Has(data, "dueDate") THEN normalizeDueDate(data.dueDate[1]) ELSE Null
         names == IF Has(data, "assignee")
                    THEN resolveBoardAssigneeName(tx[r].board, data.assignee[1]) ELSE {}
     IN IF (Has(data, "dueDate") /\ dueDate = Null) \/ (Has(data, "assignee") /\ names = {})
          THEN CreateFinish(r, 400, Null)
          ELSE \E assignee \in IF Has(data, "assignee") THEN {Some(n) : n \in names} ELSE {Null} :
                 /\ tx' = [tx EXCEPT ![r].pc = "max", ![r].assignee = assignee,
                                     ![r].dueDate = dueDate]
                 /\ UNCHANGED <<last, emitted>>
  /\ UNCHANGED <<db, live>>

\* lines 707-708 and 832-833: SELECT COALESCE(MAX(position), 0), plus 1000
CreateReadMax(r) ==
  /\ At(r, "max") /\ tx[r].op \in {"create_card", "create_column"}
  /\ tx' = [tx EXCEPT ![r].pc = "insert",
                      ![r].position = GAP + MaxPosition(IF tx[r].op = "create_card"
                                                          THEN ColumnPositions(tx[r].id)
                                                          ELSE BoardPositions(tx[r].id))]
  /\ UNCHANGED <<db, last, emitted, live>>

\* lines 710-713 and 835-840: INSERT INTO columns / INSERT INTO cards ... RETURNING
CreateInsert(r) ==
  /\ At(r, "insert") /\ tx[r].op \in {"create_card", "create_column"}
  /\ IF tx[r].op = "create_card"
       THEN LET id == serial.cards
                data == tx[r].data
                card == [board_id |-> tx[r].board, column_id |-> tx[r].id, title |-> data.title,
                         description |-> IF Has(data, "description") THEN data.description ELSE "",
                         assignee |-> tx[r].assignee, due_date |-> DueDateIn(tx[r].dueDate),
                         position |-> tx[r].position]
            IN /\ cards' = With(cards, id, card)
               /\ serial' = [serial EXCEPT !.cards = id + 1]
               /\ tx' = [tx EXCEPT ![r].pc = "log", ![r].created = id,
                                   ![r].response = Response(CreateRequest(r), 201, Null,
                                                            Some(CardRow(card)))]
               /\ UNCHANGED columns
       ELSE LET id == serial.columns
                column == [board_id |-> tx[r].board, title |-> tx[r].data.title,
                           position |-> tx[r].position]
            IN /\ columns' = With(columns, id, column)
               /\ serial' = [serial EXCEPT !.columns = id + 1]
               /\ tx' = [tx EXCEPT ![r].pc = "log", ![r].created = id,
                                   ![r].response = Response(CreateRequest(r), 201, Null,
                                                            Some(column))]
               /\ UNCHANGED cards
  /\ UNCHANGED <<boards, board_members, card_comments, activities, last, emitted, live>>

\* lines 715-723 and 842-850: logActivity
CreateLog(r) ==
  /\ At(r, "log") /\ tx[r].op \in {"create_card", "create_column"}
  /\ activities' = logActivity(activities, tx[r].board, tx[r].user,
                               IF tx[r].op = "create_card" THEN "card" ELSE "column",
                               tx[r].created, "created")
  /\ tx' = [tx EXCEPT ![r].pc = "respond"]
  /\ UNCHANGED <<boards, board_members, columns, cards, card_comments, serial, last, emitted, live>>

\* lines 725-726 and 852-853: notifyBoard, res.status(201).json
CreateRespond(r) ==
  /\ At(r, "respond") /\ tx[r].op \in {"create_card", "create_column"}
  /\ tx' = [tx EXCEPT ![r].pc = "done"]
  /\ last' = tx[r].response
  /\ emitted' = <<notifyBoard(tx[r].board, IF tx[r].op = "create_card" THEN "card_created"
                                           ELSE "column_created")>>
  /\ UNCHANGED <<db, live>>

CreateStep(r) ==
  \/ CreateSelectColumn(r)
  \/ CreateCheckRole(r)
  \/ CreateResolve(r)
  \/ CreateReadMax(r)
  \/ CreateInsert(r)
  \/ CreateLog(r)
  \/ CreateRespond(r)

(***************************************************************************)
(* The socket server.  A connection is [userId, open, rooms, joinedBoards, *)
(* pending]: rooms are the rooms socket.io has it in, joinedBoards is      *)
(* socket.data.joinedBoards in insertion order, pending the boards of the  *)
(* join_board events whose handler waits for getBoardRole.  An event is    *)
(* delivered to the open connections that are in its room.                 *)
(***************************************************************************)
Connections == 1..MaxConns

\* verifyToken: the user of a token that verifies, 0 for any other token
verifyToken(token) == IF token[1] \in Users THEN token[1] ELSE 0

\* Number.isInteger(boardId); a payload that is no number is Null
IsInteger(payload) == payload # Null

InSeq(s, x) == \E i \in 1..Len(s) : s[i] = x

\* a plausible slip: io.emit, which reaches every connection
DeliveryToAll(room) == {c \in DOMAIN sockets : sockets[c].open}

\* io.to(room).emit: the connections an event to the room reaches
Delivery(room) == {c \in DOMAIN sockets : sockets[c].open /\ room \in sockets[c].rooms}

socketError(c, message) ==
  [name |-> "socket_error", room |-> <<"socket", c>>, event |-> message]

addBoardPresence(presence, boardId, userId) ==
  LET boardMap == IF boardId \in DOMAIN presence THEN presence[boardId] ELSE <<>>
      count == IF userId \in DOMAIN boardMap THEN boardMap[userId] ELSE 0
  IN With(presence, boardId, With(boardMap, userId, count + 1))

\* a plausible slip: the count is decremented whatever it is
removeBoardPresenceUnchecked(presence, boardId, userId) ==
  LET boardMap == IF boardId \in DOMAIN presence THEN presence[boardId] ELSE <<>>
      count == IF userId \in DOMAIN boardMap THEN boardMap[userId] ELSE 0
  IN With(presence, boardId, With(boardMap, userId, count - 1))

removeBoardPresence(presence, boardId, userId) ==
  IF boardId \notin DOMAIN presence THEN presence
  ELSE LET boardMap == presence[boardId]
           count == IF userId \in DOMAIN boardMap THEN boardMap[userId] ELSE 0
           after == IF count <= 1 THEN Without(boardMap, userId)
                    ELSE With(boardMap, userId, count - 1)
       IN IF DOMAIN after = {} THEN Without(presence, boardId)
          ELSE With(presence, boardId, after)

\* Array.from(boardPresence.get(boardId)?.keys() ?? []), as a set
onlineUserIds(presence, boardId) ==
  IF boardId \in DOMAIN presence THEN DOMAIN presence[boardId] ELSE {}

notifyBoardPresence(presence, boardId) ==
  [name |-> "presence_changed", room |-> <<"board", boardId>>, event |-> "presence",
   onlineUserIds |-> onlineUserIds(presence, boardId)]

SocketEvent(op, c, payload) ==
  Response(Request(op, sockets[c].userId, [socket |-> c, boardId |-> payload]), 0, Null, Null)

\* io.use and io.on('connection'): connections are numbered as they are accepted
Connect(token) ==
  LET c == Cardinality(DOMAIN sockets) + 1
      userId == IF token = Null THEN 0 ELSE verifyToken(token)
      req == Request("connect", userId, [token |-> token])
  IN /\ c \in Connections
     /\ IF userId = 0
          THEN /\ last' = Response(req, 401, Null, Null)
               /\ UNCHANGED sockets
          ELSE /\ sockets' = With(sockets, c,
                               [userId |-> userId, open |-> TRUE,
                                rooms |-> {<<"socket", c>>, <<"user", userId>>},
                                joinedBoards |-> <<>>, pending |-> {}])
               /\ last' = Response(req, 0, Null, Some(c))
     /\ emitted' = <<>>
     /\ UNCHANGED <<db, tx, boardPresence>>

\* lines 222-228: join_board up to await getBoardRole
JoinBoardReceive(c, payload) ==
  /\ c \in DOMAIN sockets /\ sockets[c].open
  /\ IF ~IsInteger(payload)
       THEN /\ emitted' = <<socketError(c, "Invalid board id")>>
            /\ UNCHANGED sockets
       ELSE /\ sockets' = [sockets EXCEPT ![c].pending = @ \cup {payload[1]}]
            /\ emitted' = <<>>
  /\ last' = SocketEvent("join_board_received", c, payload)
  /\ UNCHANGED <<db, tx, boardPresence>>

\* a plausible slip: the join does not look at the role
JoinBoardResumeUnchecked(c, boardId) ==
  /\ c \in DOMAIN sockets /\ boardId \in sockets[c].pending
  /\ sockets' = [sockets EXCEPT ![c].pending = @ \ {boardId},
                                ![c].rooms = @ \cup {<<"board", boardId>>},
                                ![c].joinedBoards = IF InSeq(@, boardId) THEN @ ELSE Append(@, boardId)]
  /\ boardPresence' = IF InSeq(sockets[c].joinedBoards, boardId) THEN boardPresence
                      ELSE addBoardPresence(boardPresence, boardId, sockets[c].userId)
  /\ emitted' = <<notifyBoardPresence(boardPresence', boardId)>>
  /\ last' = SocketEvent("join_board", c, Some(boardId))
  /\ UNCHANGED <<db, tx>>

\* lines 228-243: join_board once getBoardRole has answered
JoinBoardResume(c, boardId) ==
  /\ c \in DOMAIN sockets /\ boardId \in sockets[c].pending
  /\ LET role == getBoardRole(sockets[c].userId, boardId)
         waiting == [sockets EXCEPT ![c].pending = @ \ {boardId}]
     IN IF role = NoRole
          THEN /\ emitted' = <<socketError(c, "Not authorized for this board")>>
               /\ sockets' = waiting
               /\ UNCHANGED boardPresence
        ELSE IF InSeq(sockets[c].joinedBoards, boardId)
          THEN /\ emitted' = <<notifyBoardPresence(boardPresence, boardId)>>
               /\ sockets' = waiting
               /\ UNCHANGED boardPresence
        ELSE /\ sockets' = [waiting EXCEPT ![c].rooms = @ \cup {<<"board", boardId>>},
                                           ![c].joinedBoards = Append(@, boardId)]
             /\ boardPresence' = addBoardPresence(boardPresence, boardId, sockets[c].userId)
             /\ emitted' = <<notifyBoardPresence(boardPresence', boardId)>>
  /\ last' = SocketEvent("join_board", c, Some(boardId))
  /\ UNCHANGED <<db, tx>>

\* lines 246-256
LeaveBoard(c, payload) ==
  /\ c \in DOMAIN sockets /\ sockets[c].open
  /\ IF payload = Null \/ ~InSeq(sockets[c].joinedBoards, payload[1])
       THEN /\ emitted' = <<>>
            /\ UNCHANGED live
       ELSE /\ sockets' = [sockets EXCEPT ![c].rooms = @ \ {<<"board", payload[1]>>},
                                          ![c].joinedBoards = Filter(@, payload[1])]
            /\ boardPresence' = removeBoardPresence(boardPresence, payload[1], sockets[c].userId)
            /\ emitted' = <<notifyBoardPresence(boardPresence', payload[1])>>
  /\ last' = SocketEvent("leave_board", c, payload)
  /\ UNCHANGED <<db, tx>>

RECURSIVE PresenceAfterLeaving(_, _, _), EventsOfLeaving(_, _, _)

\* the presence table after the loop of lines 260-263 over the boards left to visit
PresenceAfterLeaving(presence, joined, userId) ==
  IF joined = <<>> THEN presence
  ELSE PresenceAfterLeaving(removeBoardPresence(presence, Head(joined), userId), Tail(joined), userId)

\* the presence events of that loop, each with the table as it is when it is emitted
EventsOfLeaving(presence, joined, userId) ==
  IF joined = <<>> THEN <<>>
  ELSE LET after == removeBoardPresence(presence, Head(joined), userId)
       IN <<notifyBoardPresence(after, Head(joined))>> \o EventsOfLeaving(after, Tail(joined), userId)

\* lines 258-265; socket.io has taken the connection out of its rooms before
Disconnect(c) ==
  /\ c \in DOMAIN sockets /\ sockets[c].open
  /\ boardPresence' = PresenceAfterLeaving(boardPresence, sockets[c].joinedBoards, sockets[c].userId)
  /\ emitted' = EventsOfLeaving(boardPresence, sockets[c].joinedBoards, sockets[c].userId)
  /\ sockets' = [sockets EXCEPT ![c].open = FALSE, ![c].rooms = {}, ![c].joinedBoards = <<>>]
  /\ last' = SocketEvent("disconnect", c, Null)
  /\ UNCHANGED <<db, tx>>

(***************************************************************************)
(* Initial states.  The database is empty when the schema has been         *)
(* created; WithBoard is the state after user 1 has created one board.     *)
(***************************************************************************)
NoRequest ==
  [op |-> "none", user |-> 0, args |-> <<>>, status |-> 0, seen |-> Null, body |-> Null]

Init ==
  /\ boards = <<>>
  /\ board_members = <<>>
  /\ columns = <<>>
  /\ cards = <<>>
  /\ card_comments = <<>>
  /\ activities = <<>>
  /\ serial = [boards |-> 1, columns |-> 1, cards |-> 1, card_comments |-> 1]
  /\ last = NoRequest
  /\ emitted = <<>>
  /\ tx = <<>>
  /\ sockets = <<>>
  /\ boardPresence = <<>>

WithBoard ==
  /\ boards = With(<<>>, 1, [name |-> "b", created_by |-> 1])
  /\ board_members = With(<<>>, <<1, 1>>, "owner")
  /\ columns = [c \in 1..3 |-> [board_id |-> 1, title |-> DefaultColumns[c], position |-> c * GAP]]
  /\ cards = <<>>
  /\ card_comments = <<>>
  /\ activities = <<Activity(1, 1, "board", 1, "created")>>
  /\ serial = [boards |-> 2, columns |-> 4, cards |-> 1, card_comments |-> 1]
  /\ last = NoRequest
  /\ emitted = <<>>
  /\ tx = <<>>
  /\ sockets = <<>>
  /\ boardPresence = <<>>

(***************************************************************************)
(* SpecPos: the owner creates, moves and deletes cards in the first two    *)
(* columns of the board, one request at a time.                            *)
(***************************************************************************)
CardIds == 1..MaxCards

CardColumns == {1, 2}

MoveInputs == [toColumnId : CardColumns, toPosition : 0..MaxIndex]

NextPos ==
  \/ \E col \in CardColumns : CreateCard(1, col, [title |-> "t"])
  \/ \E c \in CardIds, data \in MoveInputs : MoveCard(1, c, data)
  \/ \E c \in CardIds : DeleteCard(1, c)

SpecPos == WithBoard /\ [][NextPos]_vars

(***************************************************************************)
(* What the claims speak of: a column's list, and a list with one entry    *)
(* put in or taken out.                                                    *)
(***************************************************************************)
ColumnIds == 1..3

ListOf(table, columnId) == CardsInColumn(table, columnId)

PositionsOf(table, columnId) ==
  [i \in 1..Len(ListOf(table, columnId)) |-> table[ListOf(table, columnId)[i]].position]

InsertedAt(s, k, c) ==
  [i \in 1..Len(s) + 1 |-> IF i <= k THEN s[i] ELSE IF i = k + 1 THEN c ELSE s[i - 1]]

Removed(s, c) == SelectSeq(s, LAMBDA x : x # c)

StrictlyIncreasing(s) == \A i, j \in 1..Len(s) : i < j => s[i] < s[j]

Happened(action) == \E i \in 1..Len(activities) : activities[i].action = action

MovedOk == last.op = "move_card" /\ last.status = 200

\* C1: with requests run one at a time, no two cards of a column share a position.
C1_NoSharedPosition ==
  \A a, b \in DOMAIN cards :
    a # b /\ cards[a].column_id = cards[b].column_id => cards[a].position # cards[b].position

\* A card created into a column that holds others, after a move and a delete.
C1_Witness ==
  /\ last.op = "create_card" /\ last.status = 201
  /\ Happened("moved") /\ Happened("deleted")
  /\ Len(ListOf(cards, last.args.columnId)) >= 2

\* C3: a move of card c from column A to another column B at index k leaves B as
\* its previous list with c inserted at min(k, |B|) and A as its previous list
\* without c, every other column's list as it was, and the positions of A and B
\* strictly increasing in list order.
C3_CrossColumnMove ==
  [][ (MovedOk' /\ activities' # activities
       /\ cards[last'.args.cardId].column_id # last'.args.toColumnId)
      => LET c == last'.args.cardId
             A == cards[c].column_id
             B == last'.args.toColumnId
             k == last'.args.toPosition
         IN /\ ListOf(cards', B) = InsertedAt(ListOf(cards, B), Min(k, Len(ListOf(cards, B))), c)
            /\ ListOf(cards', A) = Removed(ListOf(cards, A), c)
            /\ \A col \in ColumnIds \ {A, B} : ListOf(cards', col) = ListOf(cards, col)
            /\ StrictlyIncreasing(PositionsOf(cards', A))
            /\ StrictlyIncreasing(PositionsOf(cards', B)) ]_vars

\* A card moved between two cards of another column, out of a column that keeps a card.
C3_Witness ==
  /\ MovedOk
  /\ last.seen[1].column_id # last.args.toColumnId
  /\ last.args.toPosition = 1
  /\ Len(ListOf(cards, last.args.toColumnId)) = 3
  /\ ListOf(cards, last.args.toColumnId)[2] = last.args.cardId
  /\ Len(ListOf(cards, last.seen[1].column_id)) >= 1

\* C4: after a successful move every card of the destination column and of the
\* source column has position (i + 1) * 1000 at 0-based list index i.
C4_FullRenumbering ==
  MovedOk =>
    \A col \in {last.args.toColumnId, last.seen[1].column_id} :
      \A i \in 1..Len(ListOf(cards, col)) : cards[ListOf(cards, col)[i]].position = i * GAP

\* The first card of a column moved to the front of another: the cards behind it in
\* both columns all change position.
C4_Witness ==
  /\ MovedOk
  /\ last.seen[1].column_id # last.args.toColumnId
  /\ last.seen[1].position = GAP
  /\ last.args.toPosition = 0
  /\ Len(ListOf(cards, last.seen[1].column_id)) >= 1
  /\ Len(ListOf(cards, last.args.toColumnId)) >= 2

\* C5: a move within a column applies the index to the column's list without the
\* card: index 0 makes it first, an index of at least the number of other cards
\* makes it last, and the other cards keep their order.
C5_SameColumnMove ==
  [][ (MovedOk' /\ activities' # activities
       /\ cards[last'.args.cardId].column_id = last'.args.toColumnId)
      => LET c == last'.args.cardId
             A == last'.args.toColumnId
             k == last'.args.toPosition
             others == Removed(ListOf(cards, A), c)
             after == ListOf(cards', A)
         IN /\ after = InsertedAt(others, Min(k, Len(others)), c)
            /\ k = 0 => after[1] = c
            /\ k >= Len(others) => after[Len(after)] = c
            /\ Removed(after, c) = others ]_vars

\* The last of three cards moved to the front, and the first of three moved to the end.
C5_Witness ==
  /\ MovedOk
  /\ last.seen[1].column_id = last.args.toColumnId
  /\ Len(ListOf(cards, last.args.toColumnId)) = 3
  /\ \/ /\ last.args.toPosition = 0
        /\ last.seen[1].position = 3 * GAP
        /\ ListOf(cards, last.args.toColumnId)[1] = last.args.cardId
     \/ /\ last.args.toPosition = 2
        /\ last.seen[1].position = GAP
        /\ ListOf(cards, last.args.toColumnId)[3] = last.args.cardId

\* C11: every move-card request answered 200 appends one entry 'moved' for the card
\* to the activities of its board and emits one board_changed event to the board's
\* room, and nothing else, whether or not any position differs afterwards.
C11_MoveAlwaysLogged ==
  [][MovedOk'
     => LET c == last'.args.cardId
            b == cards[c].board_id
        IN /\ activities' = Append(activities, [board_id |-> b, actor_user_id |-> last'.user,
                                                entity_type |-> "card", entity_id |-> c,
                                                action |-> "moved"])
           /\ emitted' = <<[name |-> "board_changed", room |-> <<"board", b>>,
                            event |-> "card_moved"]>>]_vars

\* a card of a column of two or more was moved to the place it had: no card was
\* deleted before, so every column was numbered 1000, 2000, ... and stays as it was
C11_Witness ==
  /\ MovedOk
  /\ ~Happened("deleted")
  /\ last.seen[1].column_id = last.body[1].column_id
  /\ last.seen[1].position = last.body[1].position
  /\ Len(ListOf(cards, last.body[1].column_id)) >= 2
  /\ activities[Len(activities)].action = "moved"
  /\ Len(emitted) = 1

(***************************************************************************)
(* SpecMoves: move-card requests of the owner that overlap.  The board     *)
(* starts with ConcCards cards, created one after the other into any of    *)
(* its three columns.                                                      *)
(***************************************************************************)
ConcCardIds == 1..ConcCards

\* the cards table after create-card requests for cards 1..n into columns where[1..n]
RECURSIVE CreatedCards(_, _)
CreatedCards(where, n) ==
  IF n = 0 THEN <<>>
  ELSE LET before == CreatedCards(where, n - 1)
           taken == {before[c].position : c \in {k \in DOMAIN before : before[k].column_id = where[n]}}
       IN With(before, n, [board_id |-> 1, column_id |-> where[n], title |-> "t",
                           description |-> "", assignee |-> Null, due_date |-> Null,
                           position |-> MaxPosition(taken) + GAP])

WithCards ==
  /\ boards = With(<<>>, 1, [name |-> "b", created_by |-> 1])
  /\ board_members = With(<<>>, <<1, 1>>, "owner")
  /\ columns = [c \in 1..3 |-> [board_id |-> 1, title |-> DefaultColumns[c], position |-> c * GAP]]
  /\ \E where \in [ConcCardIds -> ColumnIds] : cards = CreatedCards(where, ConcCards)
  /\ card_comments = <<>>
  /\ activities = <<Activity(1, 1, "board", 1, "created")>>
                    \o [c \in ConcCardIds |-> Activity(1, 1, "card", c, "created")]
  /\ serial = [boards |-> 2, columns |-> 4, cards |-> ConcCards + 1, card_comments |-> 1]
  /\ last = NoRequest
  /\ emitted = <<>>
  /\ tx = <<>>
  /\ sockets = <<>>
  /\ boardPresence = <<>>

ConcMoveInputs == [toColumnId : ColumnIds, toPosition : {0, 1}]

NextMoves ==
  \/ \E r \in Requests, c \in ConcCardIds, data \in ConcMoveInputs : MoveBegin(r, 1, c, data)
  \/ \E r \in Requests : MoveStep(r)

SpecMoves == WithCards /\ [][NextMoves]_vars

Committed(r) == r \in DOMAIN tx /\ tx[r].pc = "done" /\ tx[r].response.status = 200

\* the source and the destination column of a committed move
Touched(r) == {tx[r].card[1].column_id, tx[r].data.toColumnId}

Dense(table, columnId) ==
  PositionsOf(table, columnId) = [i \in 1..Len(ListOf(table, columnId)) |-> i * GAP]

\* C2: when two move-card requests that were in flight at the same time and touch a
\* common column have both committed, every column either of them touched has the
\* positions 1000, 2000, ..., n * 1000.
C2_ConcurrentMovesDense ==
  \A r1, r2 \in DOMAIN tx :
    ( /\ r1 # r2
      /\ Idle
      /\ Committed(r1) /\ Committed(r2)
      /\ r2 \in tx[r1].overlapped
      /\ last \in {tx[r1].response, tx[r2].response}
      /\ Touched(r1) \cap Touched(r2) # {} )
    => \A col \in Touched(r1) \cup Touched(r2) : Dense(cards, col)


(***************************************************************************)
(* SpecAuth: three users send every kind of request to one board.  The     *)
(* board starts as user 1 (owner) and user 2 (member) have left it: one    *)
(* card in the first column, and one comment on it by user 2.  User 3 has  *)
(* no membership until the owner adds one.                                 *)
(***************************************************************************)
FirstCard ==
  [board_id |-> 1, column_id |-> 1, title |-> "t", description |-> "",
   assignee |-> Null, due_date |-> Null, position |-> GAP]

FirstComment == [board_id |-> 1, card_id |-> 1, user_id |-> 2, body |-> <<"h", "i">>]

WithTeam ==
  /\ boards = With(<<>>, 1, [name |-> "b", created_by |-> 1])
  /\ board_members = With(With(<<>>, <<1, 1>>, "owner"), <<1, 2>>, "member")
  /\ columns = [c \in 1..3 |-> [board_id |-> 1, title |-> DefaultColumns[c], position |-> c * GAP]]
  /\ cards = With(<<>>, 1, FirstCard)
  /\ card_comments = With(<<>>, 1, FirstComment)
  /\ activities = <<Activity(1, 1, "board", 1, "created"), Activity(1, 1, "member", 2, "added"),
                    Activity(1, 1, "card", 1, "created"), Activity(1, 2, "comment", 1, "created")>>
  /\ serial = [boards |-> 2, columns |-> 4, cards |-> 2, card_comments |-> 2]
  /\ last = NoRequest
  /\ emitted = <<>>
  /\ tx = <<>>
  /\ sockets = <<>>
  /\ boardPresence = <<>>

\* emails as clients type them: a member's, and another user's in capitals
AuthEmails == {UserEmail(2), <<"C", "Y", "@", "X">>}

AuthRoles == {"member", "viewer"}

\* the payloads of add-member in SpecMembers: a role for each email, an email nobody
\* has, and the owner's own email with a role the schema does not have
MemberPayloads ==
  [email : AuthEmails, role : AuthRoles]
    \cup [email : {<<"n", "o", "@", "x">>}, role : {"member"}]
    \cup [email : {UserEmail(1)}, role : {"owner"}]

\* the payloads of add-member in SpecAuth: the invitations as viewer among them
AuthMembers == {data \in MemberPayloads : data.role # "member" \/ data.email \notin AuthEmails}

\* the comment of the start, and the next one
AuthComments == {1, 2}

AuthMoves == [toColumnId : {2}, toPosition : {0}]

AuthLimits == {2}

NextAuth ==
  \E u \in Actors :
    \/ \E data \in AuthMembers : AddMember(u, 1, data)
    \/ CreateColumn(u, 1, [title |-> "c"])
    \/ UpdateColumn(u, 1, [title |-> "x"])
    \/ CreateCard(u, 1, [title |-> "t"])
    \/ UpdateCard(u, 1, [title |-> "u"])
    \/ DeleteCard(u, 1)
    \/ \E data \in AuthMoves : MoveCard(u, 1, data)
    \/ AddComment(u, 1, [body |-> <<"h", "i">>])
    \/ \E commentId \in AuthComments : DeleteComment(u, commentId)
    \/ GetBoard(u, 1)
    \/ GetMembers(u, 1)
    \/ \E limit \in AuthLimits : GetActivities(u, 1, limit)
    \/ GetComments(u, 1)

SpecAuth == WithTeam /\ [][NextAuth]_vars

\* the membership row of the user on the board, read off the table
Membership(u, boardId) ==
  IF \E key \in DOMAIN board_members : key = <<boardId, u>>
    THEN board_members[<<boardId, u>>]
    ELSE "no row"

WriteOps ==
  {"create_column", "update_column", "create_card", "update_card", "delete_card",
   "move_card", "add_comment"}

ReadOps == {"get_board", "get_members", "get_activities", "get_comments"}

\* the board a request is scoped to, through its column, card or comment; 0 when the
\* column, card or comment does not exist
BoardOf(req) ==
  IF req.op \in {"add_member", "create_column", "get_board", "get_members", "get_activities"}
    THEN req.args.boardId
  ELSE IF req.op = "update_column"
    THEN IF req.args.columnId \in DOMAIN columns THEN columns[req.args.columnId].board_id ELSE 0
  ELSE IF req.op = "create_card"
    THEN IF req.args.columnId \in DOMAIN columns THEN columns[req.args.columnId].board_id ELSE 0
  ELSE IF req.op \in {"update_card", "delete_card", "move_card", "add_comment", "get_comments"}
    THEN IF req.args.cardId \in DOMAIN cards THEN cards[req.args.cardId].board_id ELSE 0
  ELSE IF req.op = "delete_comment"
    THEN IF req.args.commentId \in DOMAIN card_comments
           THEN card_comments[req.args.commentId].board_id ELSE 0
  ELSE 0

\* C6: a request of a user whose role on the board is viewer is answered 403 and
\* changes nothing stored and emits nothing when it is a write (create column,
\* update column, create card, update card, delete card, move card, add comment),
\* and is answered 200 when it is a read (board, members, activities, comments).
C6_ViewerDeniedWritesAllowedReads ==
  [][LET req == last'
     IN BoardOf(req) # 0 /\ Membership(req.user, BoardOf(req)) = "viewer"
        => /\ req.op \in WriteOps => req.status = 403 /\ db' = db /\ emitted' = <<>>
           /\ req.op \in ReadOps => req.status = 200 /\ req.body # Null /\ db' = db]_vars

\* a viewer has just been refused a move of an existing card
C6_Witness ==
  /\ last.op = "move_card" /\ last.status = 403
  /\ 1 \in DOMAIN cards
  /\ Membership(last.user, 1) = "viewer"

\* the one payload of SpecAuth that validation refuses before any role is read
RefusedByValidation(req) ==
  req.op = "add_member" /\ req.args.data.role \notin {"member", "viewer"}

\* C7: a request of a user with no membership row for the board, whatever the
\* endpoint (read or write, on the board or on its columns, cards and comments),
\* is refused, with 403 unless its payload is invalid (400), returns nothing and
\* changes nothing stored.
C7_NonMemberDenied ==
  [][LET req == last'
     IN BoardOf(req) # 0 /\ Membership(req.user, BoardOf(req)) = "no row"
        => /\ req.status = IF RefusedByValidation(req) THEN 400 ELSE 403
           /\ req.body = Null /\ db' = db /\ emitted' = <<>>]_vars

\* user 3, who has no row, has just been refused the comments of the card
C7_Witness ==
  /\ last.op = "get_comments" /\ last.status = 403
  /\ 1 \in DOMAIN cards /\ card_comments # <<>>
  /\ Membership(last.user, 1) = "no row"

\* C8: the membership table changes only in an add-member request of a user who is
\* owner of the board at that time; an add-member request of a member, a viewer or
\* a user with no row is answered 403 and the table is as before.
C8_OnlyOwnerManagesMembers ==
  [][LET req == last'
     IN /\ board_members' # board_members
           => req.op = "add_member" /\ Membership(req.user, req.args.boardId) = "owner"
        /\ req.op = "add_member" /\ Membership(req.user, req.args.boardId) # "owner"
           => /\ req.status = IF RefusedByValidation(req) THEN 400 ELSE 403
              /\ board_members' = board_members]_vars

\* a member has just been refused the promotion of a user that exists
C8_Witness ==
  /\ last.op = "add_member" /\ last.status = 403
  /\ Membership(last.user, 1) = "member"
  /\ last.args.data.email = UserEmail(2) /\ last.args.data.role = "viewer"

\* C9: a delete-comment request for a comment that exists succeeds (204, the comment
\* is gone) exactly when the caller has a row on the comment's board and is the
\* comment's author or an owner of the board; otherwise it is answered 403 and the
\* comment is still there.
C9_DeleteCommentAuthorOrOwner ==
  [][LET req == last'
     IN req.op = "delete_comment" /\ req.args.commentId \in DOMAIN card_comments
        => LET comment == card_comments[req.args.commentId]
               role == Membership(req.user, comment.board_id)
               allowed == role # "no row" /\ (comment.user_id = req.user \/ role = "owner")
           IN /\ allowed <=> req.status = 204 /\ req.args.commentId \notin DOMAIN card_comments'
              /\ ~allowed => req.status = 403 /\ card_comments' = card_comments]_vars

\* the author of a comment, a viewer by now, has just deleted it
C9_Witness ==
  /\ last.op = "delete_comment" /\ last.status = 204
  /\ Membership(last.user, 1) = "viewer"
  /\ last.seen # Null /\ last.seen[1].user_id = last.user


(***************************************************************************)
(* SpecMembers: the three users send add-member requests for the board of  *)
(* WithTeam and read its member list.                                      *)
(***************************************************************************)
NextMembers ==
  \E u \in Actors :
    \/ \E data \in MemberPayloads : AddMember(u, 1, data)
    \/ GetMembers(u, 1)

SpecMembers == WithTeam /\ [][NextMembers]_vars

\* C20: a (board, user) pair has at most one membership row, and an add-member
\* request of the owner for a user who already has a row succeeds and leaves that
\* user with the requested role and the table with the same pairs.
C20_AddMemberUpserts ==
  [][LET req == last'
     IN /\ \A b \in 1..MaxBoards, v \in Users :
             Cardinality({key \in DOMAIN board_members' : key = <<b, v>>}) <= 1
        /\ req.op = "add_member"
           => \A v \in Users :
                /\ Lower(req.args.data.email) = UserEmail(v)
                /\ Membership(v, req.args.boardId) # "no row"
                /\ Membership(req.user, req.args.boardId) = "owner"
                /\ ~RefusedByValidation(req)
                => /\ req.status = 201
                   /\ board_members'[<<req.args.boardId, v>>] = req.args.data.role
                   /\ DOMAIN board_members' = DOMAIN board_members]_vars

\* the owner has just re-invited user 2, a member until then, as viewer
C20_Witness ==
  /\ last.op = "add_member" /\ last.status = 201
  /\ last.args.data.email = UserEmail(2) /\ last.args.data.role = "viewer"
  /\ Len(activities) = 5
  /\ Membership(2, 1) = "viewer"
  /\ Cardinality({key \in DOMAIN board_members : key[1] = 1}) = 2

(***************************************************************************)
(* SpecEdit: the owner edits one card and one column.  The card starts     *)
(* as it is after it was created with a title and then given the rest in   *)
(* one update: it is assigned to user 2, a member, and due on 2026-03-10.  *)
(* A payload has any subset of the fields; a field that is not sent is     *)
(* not in the record.                                                      *)
(***************************************************************************)
DueText == <<"2", "0", "2", "6", "-", "0", "3", "-", "1", "0">>

AssignedCard ==
  [board_id |-> 1, column_id |-> 1, title |-> "t", description |-> "d",
   assignee |-> Some(UserName(2)), due_date |-> DueDateIn(Some(DueText)), position |-> GAP]

WithAssignedCard ==
  /\ boards = With(<<>>, 1, [name |-> "b", created_by |-> 1])
  /\ board_members = With(With(<<>>, <<1, 1>>, "owner"), <<1, 2>>, "member")
  /\ columns = [c \in 1..3 |-> [board_id |-> 1, title |-> DefaultColumns[c], position |-> c * GAP]]
  /\ cards = With(<<>>, 1, AssignedCard)
  /\ card_comments = <<>>
  /\ activities = <<Activity(1, 1, "board", 1, "created"), Activity(1, 1, "member", 2, "added"),
                    Activity(1, 1, "card", 1, "created"), Activity(1, 1, "card", 1, "updated")>>
  /\ serial = [boards |-> 2, columns |-> 4, cards |-> 2, card_comments |-> 1]
  /\ last = NoRequest
  /\ emitted = <<>>
  /\ tx = <<>>
  /\ sockets = <<>>
  /\ boardPresence = <<>>

\* a field of a payload: sent with the one value of the set, or not sent
Sent(field, value) == IF value = {} THEN <<>> ELSE field :> (CHOOSE v \in value : TRUE)

\* the stored values as a client may spell them, each field sent or not: the title,
\* the description, the member's name or email in other letter case and padded,
\* the date padded
EditSame ==
  {Sent("title", t) @@ Sent("description", d) @@ Sent("assignee", a) @@ Sent("dueDate", dd) :
     t \in {{}, {"t"}}, d \in {{}, {"d"}},
     a \in {{}, {Some(<<"b", "O">>)}, {Some(<<" ", "B", "O", "@", "x">>)}},
     dd \in {{}, {Some(<<" ">> \o DueText \o <<" ">>)}}}

\* one field with another value: null, blank, the owner's name, a name no member
\* has, the next day, a day that does not exist
EditOther ==
  {Sent("title", {"u"}), Sent("description", {""}),
   Sent("assignee", {Null}), Sent("assignee", {Some(<<" ">>)}),
   Sent("assignee", {Some(<<"A", "l">>)}), Sent("assignee", {Some(<<"z">>)}),
   Sent("dueDate", {Null}), Sent("dueDate", {Some(<<>>)}),
   Sent("dueDate", {Some(<<"2", "0", "2", "6", "-", "0", "3", "-", "1", "1">>)}),
   Sent("dueDate", {Some(<<"2", "0", "2", "6", "-", "0", "2", "-", "3", "0">>)})}

EditCardPayloads == EditSame \cup EditOther

EditColumnPayloads ==
  {Sent("title", t) @@ Sent("position", p) :
     t \in {{}, {"To Do"}, {"x"}}, p \in {{}, {GAP}, {GAP + 500}}}

NextEdit ==
  \/ \E data \in EditCardPayloads : UpdateCard(1, 1, data)
  \/ \E data \in EditColumnPayloads : UpdateColumn(1, 1, data)

SpecEdit == WithAssignedCard /\ [][NextEdit]_vars

\* the stored assignee is what the text sent resolves to: nobody for null or blank,
\* else the display name of the member whose name or email it is, letter case and
\* surrounding blanks aside
ResolvesToStored(value, card) ==
  IF value = Null \/ Trim(value[1]) = <<>> THEN card.assignee = Null
  ELSE \E v \in Users :
         /\ Membership(v, card.board_id) # "no row"
         /\ Lower(Trim(value[1])) \in {Lower(UserName(v)), Lower(UserEmail(v))}
         /\ card.assignee = Some(UserName(v))

\* the stored date is the date sent: none for null or blank, else the same day
SameDay(value, card) ==
  IF value = Null \/ Trim(value[1]) = <<>> THEN card.due_date = Null
  ELSE card.due_date # Null /\ DateOut(card.due_date[1]) = Trim(value[1])

\* every field the payload sends resolves to the value the card has
SameAsStored(data, card) ==
  /\ Has(data, "title") => data.title = card.title
  /\ Has(data, "description") => data.description = card.description
  /\ Has(data, "assignee") => ResolvesToStored(data.assignee, card)
  /\ Has(data, "dueDate") => SameDay(data.dueDate, card)

SameColumn(data, column) ==
  /\ Has(data, "title") => data.title = column.title
  /\ Has(data, "position") => data.position = column.position

\* C10: an update-card request whose fields, resolved, all equal what the card has
\* (title, description, assignee by name or email in any letter case, due date, in
\* any combination) writes nothing, logs no activity, emits nothing and returns the
\* card as it is with 200; and so does an update-column request whose title and
\* position equal what the column has.
C10_NoOpUpdate ==
  [][LET req == last'
     IN /\ req.op = "update_card" /\ SameAsStored(req.args.data, cards[req.args.cardId])
           => /\ req.status = 200
              /\ req.body = Some(CardRow(cards[req.args.cardId]))
              /\ db' = db
              /\ emitted' = <<>>
        /\ req.op = "update_column" /\ SameColumn(req.args.data, columns[req.args.columnId])
           => /\ req.status = 200
              /\ req.body = Some(columns[req.args.columnId])
              /\ db' = db
              /\ emitted' = <<>>]_vars

\* the four fields were sent at once, the assignee as an email in capitals and the
\* date padded, to a card that has been edited before, and nothing was written
C10_Witness ==
  /\ last.op = "update_card" /\ last.status = 200
  /\ DOMAIN last.args.data = {"title", "description", "assignee", "dueDate"}
  /\ last.args.data.assignee = Some(<<" ", "B", "O", "@", "x">>)
  /\ last.args.data.dueDate = Some(<<" ">> \o DueText \o <<" ">>)
  /\ SameAsStored(last.args.data, cards[1])
  /\ last.body = Some(CardRow(cards[1]))
  /\ emitted = <<>>
  /\ Len(activities) > 4


(***************************************************************************)
(* SpecDeletes: two delete requests, of the comment or of its card, by the *)
(* owner, the author of the comment or a user with no membership, run      *)
(* statement by statement from the board of SpecAuth.                      *)
(***************************************************************************)
DeleteOps == {"delete_comment", "delete_card"}

NextDeletes ==
  \/ \E r \in Requests, op \in DeleteOps, u \in Actors : DeleteBegin(r, op, u, 1)
  \/ \E r \in Requests : DeleteStep(r)

SpecDeletes == WithTeam /\ [][NextDeletes]_vars

\* C12: a request that succeeds and changes stored state has appended exactly one
\* activity entry, and a request that is rejected or changes nothing has appended
\* none.  Stated of the delete requests that have been answered.
C12_OneActivityPerChange ==
  \A r \in DOMAIN tx :
    tx[r].pc = "done"
    => tx[r].logged = IF tx[r].response.status = 204 /\ tx[r].changed > 0 THEN 1 ELSE 0


(***************************************************************************)
(* SpecFail: user 1 creates a board and cards and moves the first two      *)
(* cards, and the INSERT into activities may fail in create-board and in   *)
(* move-card, the two handlers that open a transaction.                    *)
(***************************************************************************)
FailBoards == {[name |-> "b"], [name |-> ""]}

FailMoves == [toColumnId : {1, 2}, toPosition : {0, 1}]

NextFail ==
  \/ \E data \in FailBoards : CreateBoard(1, data)
  \/ \E data \in FailBoards : CreateBoardLogFails(1, data)
  \/ CreateCard(1, 1, [title |-> "t"])
  \/ \E r \in Requests, c \in {1, 2}, data \in FailMoves : MoveBegin(r, 1, c, data)
  \/ \E r \in Requests : MoveStep(r)
  \/ \E r \in Requests : MoveLogActivityFails(r)

SpecFail == Init /\ [][NextFail]_vars

\* C13: no mutation is committed without its activity entry, also when the insert
\* of the entry fails: every stored board has its 'created' entry, and a move-card
\* request answered 500 has left the card as the request found it.
C13_ActivityInSameCommit ==
  /\ \A b \in DOMAIN boards :
       \E i \in 1..Len(activities) :
         /\ activities[i].board_id = b /\ activities[i].entity_type = "board"
         /\ activities[i].action = "created"
  /\ last.op = "move_card" /\ last.status = 500
     => cards[last.args.cardId] = last.seen[1]

(***************************************************************************)
(* SpecLive: the socket server next to the board of WithTeam.  Users 2     *)
(* (member) and 3 (no membership until the owner invites them) connect,    *)
(* join, leave and disconnect, while the owner invites user 3 and renames  *)
(* a column.                                                               *)
(***************************************************************************)
LiveTokens == {Null, Some(0), Some(2), Some(3)}

LivePayloads == {Null, Some(1)}

LiveMembers == [email : {UserEmail(3), <<"n", "o", "@", "x">>}, role : {"viewer"}]

NextLive ==
  \/ \E token \in LiveTokens : Connect(token)
  \/ \E c \in Connections, payload \in LivePayloads : JoinBoardReceive(c, payload)
  \/ \E c \in Connections : JoinBoardResume(c, 1)
  \/ \E c \in Connections : LeaveBoard(c, Some(1))
  \/ \E c \in Connections : Disconnect(c)
  \/ \E data \in LiveMembers : AddMember(1, 1, data)
  \/ UpdateColumn(1, 1, [title |-> "x"])

SpecLive == WithTeam /\ [][NextLive]_vars

\* the connections of a user that are connected and have joined the board
JoinedConnections(u, b) ==
  {c \in DOMAIN sockets : sockets[c].open /\ sockets[c].userId = u /\ InSeq(sockets[c].joinedBoards, b)}

\* C14: a user is reported online on a board exactly when at least one of
\* their connections is currently joined to it.
C14_OnlineIffJoined ==
  \A b \in 1..MaxBoards, u \in Users :
    u \in onlineUserIds(boardPresence, b) <=> JoinedConnections(u, b) # {}

\* how many connections the presence table counts for a user on a board
PresenceCount(presence, b, u) ==
  IF b \in DOMAIN presence /\ u \in DOMAIN presence[b] THEN presence[b][u] ELSE 0

\* C15: removing the presence of a pair whose count is zero, or whose board
\* has no entry, leaves the table as it is; and a leave_board or disconnect
\* by a connection that has not joined a board decrements nothing on it.
C15_LeaveIdempotent ==
  [][/\ \A b \in 1..(MaxBoards + 1), u \in Users :
          PresenceCount(boardPresence', b, u) = 0
          => removeBoardPresence(boardPresence', b, u) = boardPresence'
     /\ last'.op \in {"leave_board", "disconnect"}
        => \A b \in 1..(MaxBoards + 1), u \in Users :
             ~InSeq(sockets[last'.args.socket].joinedBoards, b)
             => PresenceCount(boardPresence', b, u) = PresenceCount(boardPresence, b, u)]_vars

\* a connection that never joined board 1 sends leave_board(1) while its user
\* is online there through another connection: nothing is emitted or removed
C15_Witness ==
  /\ last.op = "leave_board"
  /\ last.args.boardId = Some(1)
  /\ emitted = <<>>
  /\ ~InSeq(sockets[last.args.socket].joinedBoards, 1)
  /\ PresenceCount(boardPresence, 1, last.user) = 1
  /\ JoinedConnections(last.user, 1) # {}

\* C16: a join_board by a connection whose user has no membership of the
\* board is answered with a socket_error to that connection only, joins no
\* room and changes no presence; and a connection without a valid token is
\* refused before any handler is installed, so every connection that can send
\* join_board belongs to an authenticated user.
C16_NonMemberJoinRejected ==
  [][/\ last'.op = "join_board" /\ Membership(last'.user, last'.args.boardId[1]) = "no row"
        => LET c == last'.args.socket
           IN /\ Len(emitted') = 1
              /\ emitted'[1].name = "socket_error"
              /\ emitted'[1].room = <<"socket", c>>
              /\ emitted'[1].event = "Not authorized for this board"
              /\ sockets'[c].rooms = sockets[c].rooms
              /\ sockets'[c].joinedBoards = sockets[c].joinedBoards
              /\ boardPresence' = boardPresence
     /\ last'.op = "connect" /\ (last'.args.token = Null \/ last'.args.token[1] \notin Users)
        => /\ last'.status = 401
           /\ sockets' = sockets
     /\ \A c \in DOMAIN sockets' : sockets'[c].userId \in Users]_vars

\* user 3, who has no membership, asked to join board 1 on an open connection
C16_Witness ==
  /\ last.op = "join_board"
  /\ Membership(last.user, 1) = "no row"
  /\ sockets[last.args.socket].open
  /\ Len(emitted) = 1 /\ emitted[1].name = "socket_error"
  /\ \E c \in DOMAIN sockets : c # last.args.socket /\ InSeq(sockets[c].joinedBoards, 1)

\* the events of the last step that are addressed to a board's room
BoardEvents ==
  {i \in 1..Len(emitted) : emitted[i].name \in {"board_changed", "presence_changed"}}

\* C17: a board_changed or presence_changed event for board b reaches exactly
\* the connections that have joined b (which they can only after the
\* membership check) and have not left or disconnected since; no connection
\* of a user without membership of b receives it.
C17_EventsReachJoinedMembers ==
  \A i \in BoardEvents :
    LET b == emitted[i].room[2]
        reached == Delivery(emitted[i].room)
    IN /\ emitted[i].room[1] = "board"
       /\ reached = {c \in DOMAIN sockets : sockets[c].open /\ InSeq(sockets[c].joinedBoards, b)}
       /\ \A c \in reached : Membership(sockets[c].userId, b) # "no row"

\* a column is renamed while a member is joined and a user without membership
\* is connected: the event reaches the member's connection only
C17_Witness ==
  /\ last.op = "update_column" /\ last.status = 200
  /\ BoardEvents # {}
  /\ \E c \in DOMAIN sockets : c \in Delivery(<<"board", 1>>)
  /\ \E c \in DOMAIN sockets :
       /\ sockets[c].open
       /\ Membership(sockets[c].userId, 1) = "no row"
       /\ c \notin Delivery(<<"board", 1>>)

(***************************************************************************)
(* SpecColumns: user 1 creates a board, adds columns to it and patches     *)
(* titles and positions of its columns.                                    *)
(***************************************************************************)
ColumnTitles == [title : {"c", ""}]

ColumnPatches == [position : {2000, 4500}] \cup [title : {"x"}]

NextColumns ==
  \/ \E data \in FailBoards : CreateBoard(1, data)
  \/ \E data \in ColumnTitles : CreateColumn(1, 1, data)
  \/ \E c \in 1..MaxColumns, data \in ColumnPatches : UpdateColumn(1, c, data)

SpecColumns == Init /\ [][NextColumns]_vars

\* C18: after any sequence of create-board, create-column and update-column
\* requests no two columns of one board have the same position.
C18_ColumnPositionsUnique ==
  \A c1, c2 \in DOMAIN columns :
    c1 # c2 /\ columns[c1].board_id = columns[c2].board_id
    => columns[c1].position # columns[c2].position

(***************************************************************************)
(* SpecAppend: the owner adds cards and columns to the board of WithBoard, *)
(* deletes cards and moves a column to another position in between.        *)
(***************************************************************************)
AppendPatches == [position : {-500, 4500}]

NextAppend ==
  \/ \E col \in CardColumns : CreateCard(1, col, [title |-> "t"])
  \/ \E c \in CardIds : DeleteCard(1, c)
  \/ CreateColumn(1, 1, [title |-> "c"])
  \/ \E data \in AppendPatches : UpdateColumn(1, 1, data)

SpecAppend == WithBoard /\ [][NextAppend]_vars

\* the position the claim gives a new item of a list with these positions
AppendedTo(positions) ==
  IF positions = {} THEN 1000
  ELSE (CHOOSE p \in positions : \A q \in positions : q <= p) + 1000

\* C19: a new card gets the largest position of the cards of its column plus
\* 1000, or 1000 in an empty column; a new column gets the largest position
\* of the board's columns plus 1000, or 1000 on a board without columns; the
\* new item is strictly after every item the list had.
C19_AppendedLast ==
  [][/\ last'.op = "create_card" /\ last'.status = 201
        => LET col == last'.args.columnId
               before == {cards[c].position : c \in {k \in DOMAIN cards : cards[k].column_id = col}}
               new == CHOOSE c \in DOMAIN cards' : c \notin DOMAIN cards
           IN /\ DOMAIN cards' \ DOMAIN cards = {new}
              /\ cards'[new].column_id = col
              /\ cards'[new].position = AppendedTo(before)
              /\ \A p \in before : p < cards'[new].position
     /\ last'.op = "create_column" /\ last'.status = 201
        => LET b == last'.args.boardId
               before == {columns[c].position : c \in {k \in DOMAIN columns : columns[k].board_id = b}}
               new == CHOOSE c \in DOMAIN columns' : c \notin DOMAIN columns
           IN /\ DOMAIN columns' \ DOMAIN columns = {new}
              /\ columns'[new].board_id = b
              /\ columns'[new].position = AppendedTo(before)
              /\ \A p \in before : p < columns'[new].position]_vars

\* a card was added to a column that deletions had left with fewer cards than
\* its largest position counts, on a board that had got a fourth column
C19_Witness ==
  /\ last.op = "create_card" /\ last.status = 201
  /\ \E c \in DOMAIN cards :
       /\ cards[c].column_id = last.args.columnId
       /\ cards[c].position = 3000
  /\ Cardinality({c \in DOMAIN cards : cards[c].column_id = last.args.columnId}) = 2
  /\ Cardinality(DOMAIN columns) = 4

(***************************************************************************)
(* SpecAssign: the board has the owner, user 2 and user 4 as members and   *)
(* one unassigned card; the owner creates and updates cards with assignee  *)
(* values: a member's email, a member's name in capitals, a padded name,   *)
(* and the email of a user who is no member.                               *)
(***************************************************************************)
WithNamesake ==
  /\ boards = With(<<>>, 1, [name |-> "b", created_by |-> 1])
  /\ board_members = With(With(With(<<>>, <<1, 1>>, "owner"), <<1, 2>>, "member"), <<1, 4>>, "member")
  /\ columns = [c \in 1..3 |-> [board_id |-> 1, title |-> DefaultColumns[c], position |-> c * GAP]]
  /\ cards = With(<<>>, 1, [board_id |-> 1, column_id |-> 1, title |-> "t", description |-> "",
                            assignee |-> Null, due_date |-> DueDateIn(Null), position |-> GAP])
  /\ card_comments = <<>>
  /\ activities = <<Activity(1, 1, "board", 1, "created"), Activity(1, 1, "member", 2, "added"),
                    Activity(1, 1, "member", 4, "added"), Activity(1, 1, "card", 1, "created")>>
  /\ serial = [boards |-> 2, columns |-> 4, cards |-> 2, card_comments |-> 1]
  /\ last = NoRequest
  /\ emitted = <<>>
  /\ tx = <<>>
  /\ sockets = <<>>
  /\ boardPresence = <<>>

AssigneeValues ==
  {UserEmail(2), <<"B", "O">>, <<" ", "A", "l", " ">>, UserEmail(3)}

AssignCreates == [title : {"t"}, assignee : {Some(v) : v \in AssigneeValues}]

AssignUpdates == [assignee : {Some(v) : v \in AssigneeValues} \cup {Null}]

NextAssign ==
  \/ \E data \in AssignCreates : CreateCard(1, 1, data)
  \/ \E data \in AssignUpdates : UpdateCard(1, 1, data)

SpecAssign == WithNamesake /\ [][NextAssign]_vars

\* the members of the board whose email, or whose name, is the value, letter case aside
MembersByEmail(b, value) ==
  {u \in Users : Membership(u, b) # "no row" /\ Lower(UserEmail(u)) = Lower(value)}

MembersByName(b, value) ==
  {u \in Users : Membership(u, b) # "no row" /\ Lower(UserName(u)) = Lower(value)}

\* C21: on create-card and update-card an assignee value that is neither the
\* name nor the email of a member of the card's board is rejected and no card
\* changes; the email of a member is accepted and the stored assignee is that
\* member's display name; a member's name is accepted and a member's display
\* name is stored.
C21_AssigneeResolved ==
  [][LET req == last'
     IN req.op \in {"create_card", "update_card"}
        /\ Has(req.args.data, "assignee") /\ req.args.data.assignee # Null
        /\ Trim(req.args.data.assignee[1]) # <<>>
        => LET value == Trim(req.args.data.assignee[1])
               id == IF req.op = "create_card" THEN serial.cards ELSE req.args.cardId
               b == IF req.op = "create_card" THEN columns[req.args.columnId].board_id
                    ELSE cards[req.args.cardId].board_id
               byEmail == MembersByEmail(b, value)
               byName == MembersByName(b, value)
           IN IF byEmail \cup byName = {}
                THEN req.status = 400 /\ cards' = cards
                ELSE /\ req.status \in {200, 201}
                     /\ \A u \in byEmail : cards'[id].assignee = Some(UserName(u))
                     /\ byEmail = {} => \E u \in byName : cards'[id].assignee = Some(UserName(u))]_vars

(***************************************************************************)
(* SpecDue: the owner creates cards and updates the card of                *)
(* WithAssignedCard (due on 2026-03-10) with due dates: a day that no      *)
(* month has, another day, a padded leap day, a leap day of a common year, *)
(* a month of one digit, a thirteenth month and a day of the year 99; and  *)
(* reads the board.                                                        *)
(***************************************************************************)
DueValues ==
  {<<"2", "0", "2", "6", "-", "0", "2", "-", "3", "0">>,
   <<"2", "0", "2", "6", "-", "0", "3", "-", "1", "1">>,
   <<" ", "2", "0", "2", "4", "-", "0", "2", "-", "2", "9", " ">>,
   <<"2", "0", "2", "3", "-", "0", "2", "-", "2", "9">>,
   <<"2", "0", "2", "6", "-", "3", "-", "1", "0">>,
   <<"2", "0", "2", "6", "-", "1", "3", "-", "0", "1">>,
   <<"0", "0", "9", "9", "-", "1", "2", "-", "3", "1">>}

DueCreates == [title : {"t"}, dueDate : {Some(v) : v \in DueValues}]

DueUpdates == [dueDate : {Some(v) : v \in DueValues}]

NextDue ==
  \/ \E data \in DueCreates : CreateCard(1, 1, data)
  \/ \E data \in DueUpdates : UpdateCard(1, 1, data)
  \/ GetBoard(1, 1)

SpecDue == WithAssignedCard /\ [][NextDue]_vars

\* the days of a month of the calendar
DaysOfMonth(year, month) ==
  IF month = 2
    THEN IF year % 4 = 0 /\ (year % 100 # 0 \/ year % 400 = 0) THEN 29 ELSE 28
  ELSE IF month \in {4, 6, 9, 11} THEN 30 ELSE 31

\* the text has the form YYYY-MM-DD and names a day of the calendar
RealDate(text) ==
  /\ Len(text) = 10
  /\ \A i \in {1, 2, 3, 4, 6, 7, 9, 10} : text[i] \in {Digits[d] : d \in 1..10}
  /\ text[5] = "-" /\ text[8] = "-"
  /\ ToNumber(SubSeq(text, 1, 4)) >= 1
  /\ ToNumber(SubSeq(text, 6, 7)) \in 1..12
  /\ ToNumber(SubSeq(text, 9, 10)) \in
       1..DaysOfMonth(ToNumber(SubSeq(text, 1, 4)), ToNumber(SubSeq(text, 6, 7)))

\* C22: a due date is accepted on create-card and update-card exactly when
\* its trimmed text has the form YYYY-MM-DD and names a day of the calendar;
\* an accepted date is stored, answered and returned by a later read of the
\* board as the same text.
C22_DueDateRoundTrip ==
  [][LET req == last'
     IN /\ req.op \in {"create_card", "update_card"}
           /\ Has(req.args.data, "dueDate") /\ req.args.data.dueDate # Null
           /\ Trim(req.args.data.dueDate[1]) # <<>>
           => LET text == Trim(req.args.data.dueDate[1])
                  id == IF req.op = "create_card" THEN serial.cards ELSE req.args.cardId
              IN IF RealDate(text)
                   THEN /\ req.status \in {200, 201}
                        /\ cards'[id].due_date = Some(<<ToNumber(SubSeq(text, 1, 4)),
                                                        ToNumber(SubSeq(text, 6, 7)),
                                                        ToNumber(SubSeq(text, 9, 10))>>)
                        /\ req.body[1].due_date = Some(text)
                   ELSE req.status = 400 /\ cards' = cards
        /\ req.op = "get_board" /\ req.status = 200
           => \A row \in req.body[1].cards :
                cards[row[1]].due_date # Null
                => LET date == cards[row[1]].due_date[1]
                   IN /\ row[2].due_date # Null
                      /\ Len(row[2].due_date[1]) = 10
                      /\ ToNumber(SubSeq(row[2].due_date[1], 1, 4)) = date[1]
                      /\ ToNumber(SubSeq(row[2].due_date[1], 6, 7)) = date[2]
                      /\ ToNumber(SubSeq(row[2].due_date[1], 9, 10)) = date[3]]_vars

\* C23: an update-card request, handled alone, keeps the stored value of each
\* of title, description, assignee and due date that its payload omits, sets
\* assignee or due date to null when the payload carries an explicit null, and
\* never changes the card's column or position, nor another card.
C23_UpdateCardFrame ==
  [][LET req == last'
     IN req.op = "update_card" /\ req.args.cardId \in DOMAIN cards
        => LET id == req.args.cardId
               data == req.args.data
           IN /\ DOMAIN cards' = DOMAIN cards
              /\ \A c \in DOMAIN cards \ {id} : cards'[c] = cards[c]
              /\ cards'[id].column_id = cards[id].column_id
              /\ cards'[id].position = cards[id].position
              /\ cards'[id].board_id = cards[id].board_id
              /\ req.status = 200
                 => /\ ~Has(data, "title") => cards'[id].title = cards[id].title
                    /\ ~Has(data, "description") => cards'[id].description = cards[id].description
                    /\ ~Has(data, "assignee") => cards'[id].assignee = cards[id].assignee
                    /\ ~Has(data, "dueDate") => cards'[id].due_date = cards[id].due_date
                    /\ Has(data, "assignee") /\ data.assignee = Null => cards'[id].assignee = Null
                    /\ Has(data, "dueDate") /\ data.dueDate = Null => cards'[id].due_date = Null]_vars

\* the due date of the assigned card has just been cleared by an explicit null
\* in a payload without the other fields: assignee, title and place are as before
C23_Witness ==
  /\ last.op = "update_card" /\ last.status = 200
  /\ DOMAIN last.args.data = {"dueDate"} /\ last.args.data.dueDate = Null
  /\ Len(activities) = 5
  /\ cards[1].due_date = Null
  /\ cards[1].assignee = Some(UserName(2))
  /\ cards[1].title = "t" /\ cards[1].position = GAP

(***************************************************************************)
(* SpecTarget: user 1 owns two boards, each with its three columns; board  *)
(* 1 has two cards in its first column.  The owner creates cards on board  *)
(* 1 and moves them to a column of board 1, to a column of board 2 and to  *)
(* a column that does not exist.                                           *)
(***************************************************************************)
WithTwoBoards ==
  /\ boards = [b \in 1..2 |-> [name |-> "b", created_by |-> 1]]
  /\ board_members = With(With(<<>>, <<1, 1>>, "owner"), <<2, 1>>, "owner")
  /\ columns = [c \in 1..6 |-> [board_id |-> IF c <= 3 THEN 1 ELSE 2,
                                title |-> DefaultColumns[((c - 1) % 3) + 1],
                                position |-> (((c - 1) % 3) + 1) * GAP]]
  /\ cards = [c \in 1..2 |-> [board_id |-> 1, column_id |-> 1, title |-> "t", description |-> "",
                              assignee |-> Null, due_date |-> DueDateIn(Null), position |-> c * GAP]]
  /\ card_comments = <<>>
  /\ activities = <<Activity(1, 1, "board", 1, "created"), Activity(2, 1, "board", 2, "created"),
                    Activity(1, 1, "card", 1, "created"), Activity(1, 1, "card", 2, "created")>>
  /\ serial = [boards |-> 3, columns |-> 7, cards |-> 3, card_comments |-> 1]
  /\ last = NoRequest
  /\ emitted = <<>>
  /\ tx = <<>>
  /\ sockets = <<>>
  /\ boardPresence = <<>>

TargetMoves == [toColumnId : {2, 4, 9}, toPosition : {0, 1}]

NextTarget ==
  \/ \E col \in CardColumns : CreateCard(1, col, [title |-> "t"])
  \/ \E c \in 1..3, data \in TargetMoves : MoveCard(1, c, data)

SpecTarget == WithTwoBoards /\ [][NextTarget]_vars

\* C24: a move-card request whose target column does not exist, or is a
\* column of another board than the card's, is rejected; every card has the
\* column and position it had, no activity entry is added and nothing is
\* broadcast.
C24_BadTargetRejected ==
  [][LET req == last'
     IN req.op = "move_card" /\ req.args.cardId \in DOMAIN cards
        /\ \/ req.args.toColumnId \notin DOMAIN columns
           \/ columns[req.args.toColumnId].board_id # cards[req.args.cardId].board_id
        => /\ req.status >= 400
           /\ cards' = cards
           /\ activities' = activities
           /\ emitted' = <<>>]_vars

\* the owner of both boards has just been refused the move of a card of board
\* 1 to a column of board 2
C24_Witness ==
  /\ last.op = "move_card" /\ last.status = 400
  /\ last.args.cardId \in DOMAIN cards
  /\ last.args.toColumnId \in DOMAIN columns
  /\ columns[last.args.toColumnId].board_id = 2
  /\ cards[last.args.cardId].board_id = 1
  /\ Membership(last.user, 2) = "owner"

(***************************************************************************)
(* SpecReject: the three users of the team board send requests most of     *)
(* which must be refused: payloads the schemas refuse, dates and assignees *)
(* the handlers refuse, ids of rows that do not exist, targets on no       *)
(* board; among them a few that succeed.                                   *)
(***************************************************************************)
NoDay == <<"2", "0", "2", "6", "-", "0", "2", "-", "3", "0">>

RejectCards ==
  [title : {"t"}, dueDate : {Some(NoDay)}]
    \cup [title : {"t"}, assignee : {Some(<<"z">>)}]
    \cup [title : {""}]

RejectEdits == [dueDate : {Some(NoDay)}] \cup [assignee : {Some(<<"z">>)}] \cup [title : {""}]

RejectMoves == [toColumnId : {9}, toPosition : {-1, 0}]

RejectIds == {1, 9}

NextReject ==
  \E u \in Actors :
    \/ CreateBoard(u, [name |-> ""])
    \/ \E data \in AuthMembers : AddMember(u, 1, data)
    \/ \E data \in ColumnTitles : CreateColumn(u, 1, data)
    \/ \E c \in RejectIds : UpdateColumn(u, c, [title |-> ""])
    \/ \E c \in RejectIds, data \in RejectCards : CreateCard(u, c, data)
    \/ \E c \in RejectIds, data \in RejectEdits : UpdateCard(u, c, data)
    \/ \E c \in RejectIds, data \in RejectMoves : MoveCard(u, c, data)
    \/ \E c \in RejectIds : DeleteCard(u, c)
    \/ \E c \in RejectIds : AddComment(u, c, [body |-> <<>>])
    \/ \E c \in RejectIds : DeleteComment(u, c)
    \/ \E b \in 1..2 : GetBoard(u, b)

SpecReject == WithTeam /\ [][NextReject]_vars

\* C25: a request that ends in a validation, authorization or not-found refusal
\* (400, 403, 404) leaves boards, memberships, columns, cards, comments and
\* activities as they were and emits no event.
C25_RejectionChangesNothing ==
  [][last'.status \in {400, 403, 404}
     => /\ boards' = boards
        /\ board_members' = board_members
        /\ columns' = columns
        /\ cards' = cards
        /\ card_comments' = card_comments
        /\ activities' = activities
        /\ emitted' = <<>>]_vars

\* the owner has just been refused a card with a due date on a day no month has
C25_Witness ==
  /\ last.op = "create_card" /\ last.status = 400
  /\ Membership(last.user, 1) = "owner"
  /\ last.args.columnId = 1
  /\ Has(last.args.data, "dueDate") /\ last.args.data.dueDate = Some(NoDay)
  /\ DOMAIN cards = {1}

(***************************************************************************)
(* SpecAbort: the owner moves the two cards of WithTwoBoards within their  *)
(* column and to the next one, one request at a time, and any statement of *)
(* a request may fail before its COMMIT.                                   *)
(***************************************************************************)
AbortCards == {1, 2}

AbortMoves == [toColumnId : {1, 2}, toPosition : {0}]

\* the steps of a request that runs alone: it waits for no lock
MoveStepAlone(r) ==
  \/ MoveLockCard(r)
  \/ MoveCheckRole(r)
  \/ MoveCheckTarget(r)
  \/ MoveSetColumn(r)
  \/ MoveReadTarget(r)
  \/ MoveWritePosition(r)
  \/ MoveReadSource(r)
  \/ MoveCommit(r)
  \/ MoveLogActivity(r)
  \/ MoveRespond(r)

NextAbort ==
  \/ \E r \in Requests, c \in AbortCards, data \in AbortMoves : Idle /\ MoveBegin(r, 1, c, data)
  \/ \E r \in Requests : MoveStepAlone(r)
  \/ \E r \in Requests : MoveStatementFails(r)

SpecAbort == WithTwoBoards /\ [][NextAbort]_vars

\* the 'moved' entries of the activity log
MovedEntries == {i \in 1..Len(activities) : activities[i].action = "moved"}

\* the requests that have got as far as their activity entry
Logged == {r \in DOMAIN tx : tx[r].pc = "respond" \/ (tx[r].pc = "done" /\ tx[r].response.status = 200)}

\* C26: when a statement of a move-card request fails before its commit the
\* whole transaction is rolled back: the stored cards change at the commit of
\* a request and at no other step, the failed request is answered 500 with
\* every card as it was, and the log has one 'moved' entry for each request
\* that committed and none for a request that failed.
C26_FailedMoveRolledBack ==
  [][/\ cards' # cards => \E r \in DOMAIN tx : tx[r].pc = "commit" /\ tx'[r].pc = "log"
     /\ \A r \in DOMAIN tx :
          tx[r].pc \in BeforeCommit /\ tx'[r].pc = "done" /\ tx'[r].response.status = 500
          => /\ cards' = cards
             /\ activities' = activities
             /\ emitted' = <<>>
     /\ Cardinality(MovedEntries') = Cardinality(Logged')]_vars

\* a request to move a card to another column has failed after it had set the
\* card's column and read the cards of the target column: the card is stored
\* as the request found it
C26_Witness ==
  \E r \in DOMAIN tx :
    /\ tx[r].pc = "done" /\ tx[r].response.status = 500
    /\ last = tx[r].response
    /\ tx[r].ids # <<>>
    /\ tx[r].card # Null
    /\ tx[r].data.toColumnId # tx[r].card[1].column_id
    /\ cards[tx[r].cardId] = tx[r].card[1]
    /\ MovedEntries = {}

(***************************************************************************)
(* SpecBoards: users create boards, and a statement of the transaction of  *)
(* create-board, or the INSERT of its activity entry after COMMIT, may     *)
(* fail; the users add columns to the boards.                              *)
(***************************************************************************)
NextBoards ==
  \/ \E u \in Actors, data \in FailBoards : CreateBoard(u, data)
  \/ \E u \in Actors, k \in 0..BoardInserts : CreateBoardStatementFails(u, [name |-> "b"], k)
  \/ \E u \in Actors : CreateBoardLogFails(u, [name |-> "b"])
  \/ \E u \in Actors, b \in 1..MaxBoards : CreateColumn(u, b, [title |-> "t"])

SpecBoards == Init /\ [][NextBoards]_vars

\* the default columns a step stores for board b: their titles and positions in the
\* order of their ids
DefaultsStored(b, old, new) ==
  LET ids == DOMAIN new \ DOMAIN old
  IN /\ Cardinality(ids) = 3
     /\ \A c \in ids : new[c].board_id = b
     /\ \A i \in 1..3 : \E c \in ids :
          /\ new[c].position = i * 1000
          /\ new[c].title = DefaultColumns[i]
          /\ Cardinality({d \in ids : d < c}) = i - 1

\* C27: create-board is atomic.  A create-board request stores either nothing, or
\* exactly one board together with the owner row of its creator and three columns
\* "To Do", "In Progress", "Done" at 1000, 2000 and 3000; a request refused or
\* failed before COMMIT stores none of them; and no other request stores a board
\* or an owner row.  At every moment each stored owner row and column belongs to
\* a stored board.
C27_CreateBoardAtomic ==
  [][LET newBoards == DOMAIN boards' \ DOMAIN boards
         newMembers == DOMAIN board_members' \ DOMAIN board_members
         stored == last'.op = "create_board" /\ last'.status \in {201, 500} /\ newBoards # {}
     IN /\ \/ /\ stored
               /\ \E b \in newBoards :
                    /\ newBoards = {b}
                    /\ boards'[b].created_by = last'.user
                    /\ newMembers = {<<b, last'.user>>}
                    /\ board_members'[<<b, last'.user>>] = "owner"
                    /\ DefaultsStored(b, columns, columns')
            \/ /\ ~stored
               /\ boards' = boards
               /\ \A m \in newMembers : board_members'[m] # "owner"
               /\ last'.op = "create_board"
                    => board_members' = board_members /\ columns' = columns
        /\ last'.op = "create_board" /\ last'.status = 201 => newBoards # {}
        /\ \A m \in DOMAIN board_members' : m[1] \in DOMAIN boards'
        /\ \A c \in DOMAIN columns' : columns'[c].board_id \in DOMAIN boards']_vars

\* a create-board request has failed after its five INSERTs had drawn their ids
\* from the sequences, and no board, owner row or column is stored
C27_Witness ==
  /\ last.op = "create_board" /\ last.status = 500
  /\ serial.boards = 2 /\ serial.columns = 4
  /\ boards = <<>> /\ board_members = <<>> /\ columns = <<>>

(***************************************************************************)
(* SpecListing: the owner moves the two cards of WithTwoBoards to the next *)
(* column in requests that may overlap, the clock may stand still between  *)
(* the INSERTs into activities of two overlapping requests, and the owner  *)
(* lists the activities of the board.                                      *)
(***************************************************************************)
ListingMoves == [toColumnId : {2}, toPosition : {0}]

ListingLimits == {0, 2, 101}

NextListing ==
  \/ \E r \in Requests, c \in AbortCards, data \in ListingMoves : MoveBegin(r, 1, c, data)
  \/ \E r \in Requests : MoveStep(r)
  \/ \E r \in Requests : MoveLogActivitySameTick(r)
  \/ \E limit \in ListingLimits : GetActivities(1, 1, limit)

SpecListing == WithTwoBoards /\ [][NextListing]_vars

\* C28: every listing of the activities of a board is newest first and holds at
\* most PageCap entries and at most the limit asked for (at least one), and the
\* entries of the same creation time come in an order fixed by their ids: a listing
\* that follows a listing of the same entries with the same limit returns the same
\* sequence.
C28_ListingOrder ==
  [][last'.op = "get_activities" /\ last'.status = 200
     => LET rows == last'.body[1]
        IN /\ \A k, l \in 1..Len(rows) : k < l => rows[k].created_at >= rows[l].created_at
           /\ Len(rows) <= PageCap
           /\ Len(rows) <= Max(last'.args.limit, 1)
           /\ last.op = "get_activities" /\ last.status = 200 /\ last.user = last'.user
                /\ last.args = last'.args
              => rows = last.body[1]]_vars

(***************************************************************************)
(* SpecRoles: the owner of WithBoard invites user 2 as member or as viewer *)
(* and changes that role again, and user 2 sends write requests between    *)
(* the changes.                                                            *)
(***************************************************************************)
RoleChanges == [email : {UserEmail(2)}, role : {"member", "viewer"}]

NextRoles ==
  \/ \E data \in RoleChanges : AddMember(1, 1, data)
  \/ UpdateColumn(2, 1, [title |-> "x"])
  \/ CreateCard(2, 1, [title |-> "t"])
  \/ UpdateCard(2, 1, [title |-> "u"])
  \/ \E data \in AuthMoves : MoveCard(2, 1, data)

SpecRoles == WithBoard /\ [][NextRoles]_vars

\* the add-member entries of the activities that name the user
InvitationsOf(u) ==
  {i \in 1..Len(activities) : activities[i].entity_type = "member" /\ activities[i].entity_id = u}

\* C29: a write request on a column or card that exists is denied (403) exactly
\* when the row of its user on the board, as stored when the request is handled,
\* is missing or holds viewer; in particular the write request that follows a
\* completed add-member request for its user is denied when that request set the
\* role viewer and is not denied when it set member, whatever the role was before.
C29_RoleReadAtCallTime ==
  [][LET req == last'
         b == BoardOf(req)
     IN req.op \in WriteOps /\ b # 0
        => /\ req.status = 403 <=> Membership(req.user, b) \notin {"owner", "member"}
           /\ /\ last.op = "add_member" /\ last.status = 201
              /\ last.args.boardId = b /\ Lower(last.args.data.email) = UserEmail(req.user)
              => (req.status = 403 <=> last.args.data.role = "viewer")]_vars

\* user 2, invited twice and a viewer since the last add-member request, has just
\* been refused the update of a card that user 2 created as a member
C29_Witness ==
  /\ last.op = "update_card" /\ last.user = 2 /\ last.status = 403
  /\ 1 \in DOMAIN cards
  /\ Membership(2, 1) = "viewer"
  /\ Cardinality(InvitationsOf(2)) >= 2

\* what the client sees of a refusal: the status and the JSON body
Outcome(res) == <<res.status, res.message, res.body>>

\* C30: on every write endpoint the refusal of a caller with no row on the board
\* and the refusal of a caller whose row holds viewer are different outcomes: when
\* a request of a viewer is refused right after the same kind of request of a user
\* with no row on the same board was refused, the two answers differ in status or
\* message.
C30_DenialsDistinguishable ==
  [][LET was == last
         now == last'
         b == BoardOf(was)
     IN /\ was.op \in WriteOps /\ now.op = was.op
        /\ was.status = 403 /\ now.status = 403
        /\ b # 0 /\ BoardOf(now) = b
        /\ Membership(was.user, b) = "no row" /\ Membership(now.user, b) = "viewer"
        => Outcome(was) # Outcome(now)]_vars

(***************************************************************************)
(* SpecInvite: users 2 and 3 connect, join board 1 of WithTeam and         *)
(* disconnect, while the owner invites user 3 and an email nobody has.     *)
(***************************************************************************)
InviteTokens == {Some(2), Some(3)}

NextInvite ==
  \/ \E token \in InviteTokens : Connect(token)
  \/ \E c \in Connections : JoinBoardReceive(c, Some(1))
  \/ \E c \in Connections : JoinBoardResume(c, 1)
  \/ \E c \in Connections : Disconnect(c)
  \/ \E data \in LiveMembers : AddMember(1, 1, data)

SpecInvite == WithTeam /\ [][NextInvite]_vars

\* the personal rooms a connection is in
PersonalRooms(conns, c) == {room \in conns[c].rooms : room[1] = "user"}

\* the events of a step with that name and room
Emitted(events, name, room) ==
  {i \in 1..Len(events) : events[i].name = name /\ events[i].room = room}

\* C31: an add-member request answered 201 for the user u of the email on board b
\* emits one boards_changed event to u's personal room and one board_changed event
\* to b's room, the first reaching exactly the open connections of u; a connection
\* is in the personal room of its own user from the step that accepts it, and in no
\* other personal room, for as long as it is open.
C31_InviteNotifiesUserAndBoard ==
  [][/\ last'.op = "add_member" /\ last'.status = 201
        => LET u == CHOOSE v \in Users : UserEmail(v) = Lower(last'.args.data.email)
               b == last'.args.boardId
           IN /\ Cardinality(Emitted(emitted', "boards_changed", <<"user", u>>)) = 1
              /\ Cardinality(Emitted(emitted', "board_changed", <<"board", b>>)) = 1
              /\ {c \in DOMAIN sockets' : sockets'[c].open /\ <<"user", u>> \in sockets'[c].rooms}
                   = {c \in DOMAIN sockets' : sockets'[c].open /\ sockets'[c].userId = u}
     /\ \A c \in DOMAIN sockets' :
          sockets'[c].open => PersonalRooms(sockets', c) = {<<"user", sockets'[c].userId>>}]_vars

\* user 3 has just been invited to board 1 while connected next to user 2: the
\* boards_changed event reaches the connection of user 3 and not that of user 2
C31_Witness ==
  /\ last.op = "add_member" /\ last.status = 201 /\ last.args.data.email = UserEmail(3)
  /\ Emitted(emitted, "boards_changed", <<"user", 3>>) # {}
  /\ \E c \in Delivery(<<"user", 3>>) : sockets[c].userId = 3
  /\ \E c \in DOMAIN sockets :
       sockets[c].open /\ sockets[c].userId = 2 /\ c \notin Delivery(<<"user", 3>>)

(***************************************************************************)
(* SpecSameCard: the owner sends move-card requests for card 1 of          *)
(* WithTwoBoards that may overlap.  All of them lock card 1 first, so none *)
(* of them waits for a request that waits for it.                          *)
(***************************************************************************)
NextSameCard ==
  \/ \E r \in Requests, data \in FailMoves : MoveBegin(r, 1, 1, data)
  \/ \E r \in Requests : MoveStepAlone(r)

SpecSameCard == WithTwoBoards /\ [][NextSameCard]_vars

\* the requests that hold the lock on their card and have not committed or rolled back
Holding(requests) == {r \in DOMAIN requests : requests[r].pc \in BeforeCommit \ {"lock"}}

\* C32: of the move-card requests for one card at most one at a time is between
\* its lock on the card and its COMMIT or ROLLBACK; a request gets the lock, and
\* with it the card's row as committed, only when no other request is there; and
\* each COMMIT leaves the cards as the move run alone on the cards committed before
\* it leaves them, so that the final columns and positions are those of the moves
\* run one after the other in commit order.
C32_SameCardMovesSerialized ==
  [][/\ Cardinality(Holding(tx')) <= 1
     /\ \A r \in DOMAIN tx :
          tx[r].pc = "lock" /\ tx'[r].pc = "role"
          => /\ Holding(tx) = {}
             /\ tx'[r].card = Some(cards[tx[r].cardId])
     /\ \A r \in DOMAIN tx :
          tx[r].pc = "commit" /\ tx'[r].pc = "log"
          => cards' = MoveWrites(cards, tx[r].cardId, cards[tx[r].cardId].column_id, tx[r].data)]_vars

\* two overlapping requests have moved card 1, the first to column 2 and the second,
\* which read the card in column 2, back to column 1
C32_Witness ==
  /\ DOMAIN tx = {1, 2}
  /\ tx[1].pc = "done" /\ tx[1].response.status = 200
  /\ tx[2].pc = "done" /\ tx[2].response.status = 200
  /\ 2 \in tx[1].overlapped
  /\ tx[1].data.toColumnId = 2 /\ tx[2].card # Null /\ tx[2].card[1].column_id = 2
  /\ tx[2].data.toColumnId = 1 /\ cards[1].column_id = 1

\* the board_changed events among the events of a step
BoardChanged(events) == {i \in 1..Len(events) : events[i].name = "board_changed"}

\* the entries of the log that record the delete of request r
DeleteEntries(log, r) ==
  {i \in 1..Len(log) :
     /\ log[i].action = "deleted" /\ log[i].entity_id = tx[r].id
     /\ log[i].entity_type = (IF tx[r].op = "delete_comment" THEN "comment" ELSE "card")
     /\ log[i].actor_user_id = tx[r].user}

\* C33: a board_changed event is emitted only by the last step of a request, after
\* its write is committed and its activity entry is stored: when a delete request
\* that removed a row emits the event, the row is gone and the log holds the entry
\* of that request, so a client that reads the board and the activities on the
\* event finds both.
C33_CommitLogThenNotify ==
  [][LET responding == {r \in DOMAIN tx : tx[r].pc = "respond" /\ tx'[r].pc = "done"}
     IN /\ responding = {} => BoardChanged(emitted') = {} \/ emitted' = emitted
        /\ \A r \in responding :
             BoardChanged(emitted') # {} /\ tx[r].changed > 0
             => /\ tx[r].id \notin
                     (IF tx[r].op = "delete_comment" THEN DOMAIN card_comments' ELSE DOMAIN cards')
                /\ tx[r].logged = 1
                /\ DeleteEntries(activities', r) # {}]_vars

\* the connection is closed or has joined no board, and none of its join_board
\* handlers waits for getBoardRole
LeftOrDisconnected(c) ==
  /\ ~sockets[c].open \/ sockets[c].joinedBoards = <<>>
  /\ sockets[c].pending = {}

\* C34: every count of the presence table is at least 1 and no board has an entry
\* without users, and when every connection has left its boards or disconnected
\* and no handler is waiting, the table is empty.
C34_PresenceTableTight ==
  /\ \A b \in DOMAIN boardPresence :
       /\ DOMAIN boardPresence[b] # {}
       /\ \A u \in DOMAIN boardPresence[b] : boardPresence[b][u] >= 1
  /\ (\A c \in DOMAIN sockets : LeftOrDisconnected(c)) => boardPresence = <<>>

\* C35: whenever no join_board handler is waiting for getBoardRole, the presence
\* count of every user on every board is the number of that user's open
\* connections that have joined the board.
C35_CountIsJoinedConnections ==
  (\A c \in DOMAIN sockets : sockets[c].pending = {})
  => \A b \in 1..MaxBoards, u \in Users :
       PresenceCount(boardPresence, b, u) = Cardinality(JoinedConnections(u, b))

\* C36: when a connection has sent join_board(b) and then leave_board(b), so that
\* the leave_board handler ran while the join_board handler was waiting for
\* getBoardRole, then once the join_board handler has finished too the connection
\* is not in b's room, b is not in its joined set, and the presence count of its
\* user on b is that of the user's other connections.
C36_JoinThenLeaveLeaves ==
  [][LET c == last.args.socket
         b == last.args.boardId[1]
         u == last.user
     IN /\ last.op = "leave_board" /\ last.args.boardId # Null
        /\ b \in sockets[c].pending
        /\ last'.op = "join_board" /\ last'.args.socket = c /\ last'.args.boardId = Some(b)
        => /\ <<"board", b>> \notin sockets'[c].rooms
           /\ ~InSeq(sockets'[c].joinedBoards, b)
           /\ PresenceCount(boardPresence', b, u)
                = Cardinality({d \in DOMAIN sockets' \ {c} :
                                 /\ sockets'[d].open /\ sockets'[d].userId = u
                                 /\ InSeq(sockets'[d].joinedBoards, b)})]_vars

(***************************************************************************)
(* SpecPatch: the owner sends update-card requests for card 1 of WithTeam  *)
(* that may overlap, one kind with a title only and one with a description *)
(* only.                                                                   *)
(***************************************************************************)
PatchPayloads == {[title |-> "u"], [description |-> "d"], [title |-> ""]}

NextPatch ==
  \/ \E r \in Requests, data \in PatchPayloads : PatchBegin(r, 1, 1, data)
  \/ \E r \in Requests : PatchStep(r)

SpecPatch == WithTeam /\ [][NextPatch]_vars

\* C37: when all update-card requests have been answered, every field that exactly
\* one successful request named holds the value of that request.
C37_DisjointUpdatesBothKept ==
  (\A r \in DOMAIN tx : tx[r].pc = "done")
  => \A r \in DOMAIN tx :
       tx[r].response.status = 200
       => \A f \in DOMAIN tx[r].data :
            (\A o \in DOMAIN tx \ {r} : f \notin DOMAIN tx[o].data)
            => cards[tx[r].id][f] = tx[r].data[f]

(***************************************************************************)
(* SpecCreate: the owner and the member of WithTeam send create-card       *)
(* requests for column 1 and create-column requests for board 1 that may   *)
(* overlap.                                                                *)
(***************************************************************************)
CreateOps == {"create_card", "create_column"}

NextCreate ==
  \/ \E r \in Requests, op \in CreateOps, u \in {1, 2} : CreateBegin(r, op, u, 1, [title |-> "n"])
  \/ \E r \in Requests : CreateStep(r)

SpecCreate == WithTeam /\ [][NextCreate]_vars

\* C38: two create-card requests into one column, or two create-column requests on
\* one board, that have both stored their row hold rows with distinct positions.
C38_ConcurrentCreatesDistinct ==
  \A r, o \in DOMAIN tx :
    /\ r # o /\ tx[r].op = tx[o].op /\ tx[r].id = tx[o].id
    /\ tx[r].created > 0 /\ tx[o].created > 0
    => IF tx[r].op = "create_card"
         THEN cards[tx[r].created].position # cards[tx[o].created].position
         ELSE columns[tx[r].created].position # columns[tx[o].created].position

(***************************************************************************)
(* SpecOwners: from the empty database, users create a board and send      *)
(* add-member requests for it, with their own email and with the email of  *)
(* another user, as member and as viewer.                                  *)
(***************************************************************************)
OwnerPayloads == [email : {UserEmail(1), UserEmail(2)}, role : AuthRoles]

NextOwners ==
  \/ \E u \in Actors, data \in FailBoards : CreateBoard(u, data)
  \/ \E u \in Actors, data \in OwnerPayloads : AddMember(u, 1, data)

SpecOwners == Init /\ [][NextOwners]_vars

\* C39: every board has at least one membership row with the role owner.
C39_EveryBoardHasOwner ==
  \A b \in DOMAIN boards : \E u \in Users : Membership(u, b) = "owner"

(***************************************************************************)
(* SpecHome: the owner of the two boards of WithTwoBoards creates cards in *)
(* columns of both boards and in a column that does not exist, and moves   *)
(* cards to columns of their own board, of the other board and of none.    *)
(***************************************************************************)
HomeColumns == {2, 4, 9}

HomeMoves == [toColumnId : {2, 4, 5, 9}, toPosition : {0}]

NextHome ==
  \/ \E col \in HomeColumns : CreateCard(1, col, [title |-> "t"])
  \/ \E c \in CardIds, data \in HomeMoves : MoveCard(1, c, data)

SpecHome == WithTwoBoards /\ [][NextHome]_vars

\* the column of every card of the table is a column of the card's board
ColumnsOnOwnBoard(table) ==
  \A c \in DOMAIN table :
    /\ table[c].column_id \in DOMAIN columns
    /\ columns[table[c].column_id].board_id = table[c].board_id

\* C40: in every state the column of every card belongs to the card's board, and
\* no step, a move-card included, changes the board of a card.
C40_CardColumnOnCardBoard ==
  [][/\ ColumnsOnOwnBoard(cards) /\ ColumnsOnOwnBoard(cards')
     /\ \A c \in DOMAIN cards : c \in DOMAIN cards' /\ cards'[c].board_id = cards[c].board_id]_vars

\* a card of board 2 has just been moved from one column of board 2 to another
C40_Witness ==
  /\ last.op = "move_card" /\ last.status = 200
  /\ cards[last.args.cardId].board_id = 2
  /\ last.seen[1].column_id # cards[last.args.cardId].column_id
  /\ columns[cards[last.args.cardId].column_id].board_id = 2

====
